---- MODULE Spec2Model ----
(***************************************************************************)
(* Tool acquisition and caching engine of the code-signing setup action:   *)
(* the retry executor (src/utils.ts), the DMG extraction dispatcher        *)
(* (src/macos_dmg_setup.ts) and the acquisition pipeline setupTool /       *)
(* setupToolInternal / cachedSetup (tool_setup.ts).                        *)
(***************************************************************************)
EXTENDS Integers, Sequences, FiniteSets, TLC

\* ------------------------------------------------------------------------
\* Bounds of the model
\* ------------------------------------------------------------------------
MaxAttemptsBound == 3
MaxDelayBound == 3

None == [kind |-> "none"]

Min(a, b) == IF a <= b THEN a ELSE b

RECURSIVE CountOf(_, _)
CountOf(seq, x) ==
    IF seq = <<>> THEN 0
    ELSE (IF Head(seq) = x THEN 1 ELSE 0) + CountOf(Tail(seq), x)

IndexOf(seq, x) == CHOOSE i \in 1..Len(seq) : seq[i] = x

RECURSIVE Pow(_, _)
Pow(b, e) == IF e = 0 THEN 1 ELSE b * Pow(b, e - 1)

\* ------------------------------------------------------------------------
\* Retry executor: retryWithBackoff(operation, operationName, config)
\* ------------------------------------------------------------------------
VARIABLES
    maxAttempts,        \* config.maxAttempts
    initialDelayMs,     \* config.initialDelayMs
    backoffMultiplier,  \* config.backoffMultiplier
    maxDelayMs,         \* config.maxDelayMs
    opFailures,         \* the operation fails on its first opFailures invocations
    rpc,                \* position of retryWithBackoff
    attempt,            \* loop variable
    delayMs,            \* the delay the next wait will use
    lastError,          \* last normalised error
    thrown,             \* values the operation has thrown, in order
    opValue,            \* value the operation resolved with, or None
    opCalls,            \* number of invocations of the operation
    waits,              \* delays waited so far, in order
    rlog,               \* log lines by level
    result,             \* value retryWithBackoff resolved with
    rejection           \* error retryWithBackoff rejected with

rvars == <<maxAttempts, initialDelayMs, backoffMultiplier, maxDelayMs, opFailures,
           rpc, attempt, delayMs, lastError, thrown, opValue, opCalls, waits,
           rlog, result, rejection>>

\* What an operation can resolve with and what it can throw: Error objects
\* and values that are not Errors (a rejected string).
OpValues == {[kind |-> "value", value |-> "success"], [kind |-> "value", value |-> "data"]}
OpThrows == {[kind |-> "Error", message |-> "Network timeout", by |-> "operation"],
             [kind |-> "Error", message |-> "Persistent failure", by |-> "operation"],
             [kind |-> "string", value |-> "string error"]}

\* String(error) of a thrown value that is not an Error
StringOf(t) == IF t.kind = "Error" THEN t.message ELSE t.value

\* utils.ts:130  error instanceof Error ? error : new Error(String(error))
NormalizeError(t) ==
    IF t.kind = "Error" THEN t
    ELSE [kind |-> "Error", message |-> StringOf(t), by |-> "retryWithBackoff"]

\* utils.ts:142  Math.min(delayMs * backoffMultiplier, maxDelayMs)
NextDelay(d, mult, cap) == Min(d * mult, cap)

RetryInit ==
    /\ maxAttempts \in 0..MaxAttemptsBound
    /\ initialDelayMs \in 1..MaxDelayBound
    /\ backoffMultiplier \in 1..2
    /\ maxDelayMs \in {2, 4}
    /\ opFailures \in 0..(MaxAttemptsBound + 1)
    /\ rpc = "loop"
    /\ attempt = 1
    /\ delayMs = initialDelayMs
    /\ lastError = None
    /\ thrown = <<>>
    /\ opValue = None
    /\ opCalls = 0
    /\ waits = <<>>
    /\ rlog = [debug |-> 0, info |-> 0, warning |-> 0, error |-> 0]
    /\ result = None
    /\ rejection = None

\* utils.ts:119-128  an attempt whose operation resolves
AttemptSucceeds ==
    /\ rpc = "loop"
    /\ attempt <= maxAttempts
    /\ opCalls >= opFailures
    /\ \E v \in OpValues :
        /\ opValue' = v
        /\ result' = v
    /\ opCalls' = opCalls + 1
    /\ rlog' = [rlog EXCEPT !.debug = @ + 1,
                            !.info = IF attempt > 1 THEN @ + 1 ELSE @]
    /\ rpc' = "returned"
    /\ UNCHANGED <<maxAttempts, initialDelayMs, backoffMultiplier, maxDelayMs, opFailures,
                   attempt, delayMs, lastError, thrown, waits, rejection>>

\* AttemptFails that gives up at the first failure instead of retrying
AttemptFailsNoRetry ==
    /\ rpc = "loop"
    /\ attempt <= maxAttempts
    /\ opCalls < opFailures
    /\ \E t \in OpThrows :
        /\ thrown' = Append(thrown, t)
        /\ lastError' = NormalizeError(t)
    /\ opCalls' = opCalls + 1
    /\ rlog' = [rlog EXCEPT !.debug = @ + 1, !.error = @ + 1]
    /\ rpc' = "loop"
    /\ attempt' = maxAttempts + 1
    /\ UNCHANGED <<maxAttempts, initialDelayMs, backoffMultiplier, maxDelayMs, opFailures,
                   delayMs, opValue, waits, result, rejection>>

\* utils.ts:129-147  an attempt whose operation throws
AttemptFails ==
    /\ rpc = "loop"
    /\ attempt <= maxAttempts
    /\ opCalls < opFailures
    /\ \E t \in OpThrows :
        /\ thrown' = Append(thrown, t)
        /\ lastError' = NormalizeError(t)
    /\ opCalls' = opCalls + 1
    /\ IF attempt < maxAttempts
       THEN /\ rlog' = [rlog EXCEPT !.debug = @ + 1, !.warning = @ + 1, !.info = @ + 1]
            /\ rpc' = "sleep"
            /\ attempt' = attempt
       ELSE /\ rlog' = [rlog EXCEPT !.debug = @ + 1, !.error = @ + 1]
            /\ rpc' = "loop"
            /\ attempt' = attempt + 1
    /\ UNCHANGED <<maxAttempts, initialDelayMs, backoffMultiplier, maxDelayMs, opFailures,
                   delayMs, opValue, waits, result, rejection>>

\* a variant that goes to the next attempt without waiting
SleepSkipped ==
    /\ rpc = "sleep"
    /\ delayMs' = NextDelay(delayMs, backoffMultiplier, maxDelayMs)
    /\ attempt' = attempt + 1
    /\ rpc' = "loop"
    /\ UNCHANGED <<maxAttempts, initialDelayMs, backoffMultiplier, maxDelayMs, opFailures,
                   lastError, thrown, opValue, opCalls, rlog, result, rejection, waits>>

\* utils.ts:139-142  the wait before the next attempt, then the new delay
Sleep ==
    /\ rpc = "sleep"
    /\ waits' = Append(waits, delayMs)
    /\ delayMs' = NextDelay(delayMs, backoffMultiplier, maxDelayMs)
    /\ attempt' = attempt + 1
    /\ rpc' = "loop"
    /\ UNCHANGED <<maxAttempts, initialDelayMs, backoffMultiplier, maxDelayMs, opFailures,
                   lastError, thrown, opValue, opCalls, rlog, result, rejection>>

\* RetryThrow that wraps the last error in a new error
RetryThrowWrapped ==
    /\ rpc = "loop"
    /\ attempt > maxAttempts
    /\ rejection' = [kind |-> "Error", message |-> "failed after attempts",
                     by |-> "retryWithBackoff"]
    /\ rpc' = "rejected"
    /\ UNCHANGED <<maxAttempts, initialDelayMs, backoffMultiplier, maxDelayMs, opFailures,
                   attempt, delayMs, lastError, thrown, opValue, opCalls, waits,
                   rlog, result>>

\* utils.ts:151  throw lastError || new Error(`... failed after N attempts`)
RetryThrow ==
    /\ rpc = "loop"
    /\ attempt > maxAttempts
    /\ rejection' = IF lastError # None THEN lastError
                    ELSE [kind |-> "Error", message |-> "failed after attempts",
                          by |-> "retryWithBackoff"]
    /\ rpc' = "rejected"
    /\ UNCHANGED <<maxAttempts, initialDelayMs, backoffMultiplier, maxDelayMs, opFailures,
                   attempt, delayMs, lastError, thrown, opValue, opCalls, waits,
                   rlog, result>>


\* ------------------------------------------------------------------------
\* DMG extraction: extractDmg(dmgFile, callback)
\* ------------------------------------------------------------------------
MaxDmgCalls == 2

VARIABLES
    dpc,             \* position of extractDmg
    dcaller,         \* who awaits this extractDmg call
    dmgFile,         \* argument dmgFile
    callback,        \* behaviour of the argument callback: "resolves" or "rejects"
    volume,          \* the mount point generated for this call
    mounted,         \* local flag mounted
    inflight,        \* exception propagating out of the try block, or None
    dret,            \* how the call settled: returned volume or rejection
    dtrace,          \* what this call did, in order
    dcalls,          \* number of extractDmg calls so far
    mountsOk,        \* successful hdiutil attach runs, all calls
    detachAttempts,  \* hdiutil detach runs, all calls
    osMounted        \* volumes currently mounted

dvars == <<dpc, dcaller, dmgFile, callback, volume, mounted, inflight, dret, dtrace,
           dcalls, mountsOk, detachAttempts, osMounted>>

DmgFiles == {"/test1.dmg", "/test2.dmg"}
MountError == [kind |-> "Error", message |-> "Mount failed", by |-> "hdiutil attach"]
UnmountError == [kind |-> "Error", message |-> "Unmount failed", by |-> "hdiutil detach"]
CallbackErrors == {[kind |-> "Error", message |-> "Callback processing failed", by |-> "callback"],
                   [kind |-> "Error", message |-> "Processing error", by |-> "callback"]}

\* macos_dmg_setup.ts:7  path.join('/Volumes', randomDirName()), a fresh name per call
RandomVolume(n) == <<"/Volumes", "D_", n>>

DmgIdle ==
    /\ dpc = "idle"
    /\ dcaller = "none"
    /\ dmgFile = "none"
    /\ callback = "none"
    /\ volume = <<>>
    /\ mounted = FALSE
    /\ inflight = None
    /\ dret = None
    /\ dtrace = <<>>
    /\ dcalls = 0
    /\ mountsOk = 0
    /\ detachAttempts = 0
    /\ osMounted = {}

\* macos_dmg_setup.ts:6-10  entry of extractDmg for caller c
ExtractDmgEnter(c, file, cb) ==
    /\ dpc \in {"idle", "done"}
    /\ dcaller' = c
    /\ dmgFile' = file
    /\ callback' = cb
    /\ volume' = RandomVolume(dcalls + 1)
    /\ mounted' = FALSE
    /\ inflight' = None
    /\ dret' = None
    /\ dtrace' = <<>>
    /\ dcalls' = dcalls + 1
    /\ dpc' = "attach"
    /\ UNCHANGED <<mountsOk, detachAttempts, osMounted>>

\* a direct caller of extractDmg, as in the unit tests
ExtractDmgCall ==
    /\ dcalls < MaxDmgCalls
    /\ \E file \in DmgFiles, cb \in {"resolves", "rejects"} :
          ExtractDmgEnter("caller", file, cb)

\* macos_dmg_setup.ts:12-16  hdiutil attach succeeds
HdiutilAttachOk ==
    /\ dpc = "attach"
    /\ osMounted' = osMounted \cup {volume}
    /\ mounted' = TRUE
    /\ mountsOk' = mountsOk + 1
    /\ dtrace' = Append(dtrace, "attach-ok")
    /\ dpc' = "callback"
    /\ UNCHANGED <<dcaller, dmgFile, callback, volume, inflight, dret, dcalls,
                   detachAttempts>>

\* macos_dmg_setup.ts:12-15  hdiutil attach fails: the exception leaves the try block
HdiutilAttachFails ==
    /\ dpc = "attach"
    /\ inflight' = MountError
    /\ dtrace' = Append(dtrace, "attach-failed")
    /\ dpc' = "finally"
    /\ UNCHANGED <<dcaller, dmgFile, callback, volume, mounted, dret, dcalls, mountsOk,
                   detachAttempts, osMounted>>

\* macos_dmg_setup.ts:18-20  the callback resolves
CallbackResolves ==
    /\ dpc = "callback"
    /\ callback = "resolves"
    /\ dtrace' = Append(dtrace, "callback-resolved")
    /\ dpc' = "finally"
    /\ UNCHANGED <<dcaller, dmgFile, callback, volume, mounted, inflight, dret, dcalls,
                   mountsOk, detachAttempts, osMounted>>

\* CallbackRejects whose exception bypasses the finally block
CallbackRejectsNoFinally ==
    /\ dpc = "callback"
    /\ callback = "rejects"
    /\ \E e \in CallbackErrors : inflight' = e
    /\ dtrace' = Append(dtrace, "callback-rejected")
    /\ dpc' = "settle"
    /\ UNCHANGED <<dcaller, dmgFile, callback, volume, mounted, dret, dcalls,
                   mountsOk, detachAttempts, osMounted>>

\* macos_dmg_setup.ts:18  the callback rejects: the exception leaves the try block
CallbackRejects ==
    /\ dpc = "callback"
    /\ callback = "rejects"
    /\ \E e \in CallbackErrors : inflight' = e
    /\ dtrace' = Append(dtrace, "callback-rejected")
    /\ dpc' = "finally"
    /\ UNCHANGED <<dcaller, dmgFile, callback, volume, mounted, dret, dcalls,
                   mountsOk, detachAttempts, osMounted>>

\* FinallyDetach without the guard on mounted
FinallyDetachUnguarded ==
    /\ dpc = "finally"
    /\ detachAttempts' = detachAttempts + 1
    /\ \E outcome \in {"exit-0", "exit-nonzero", "throws"} :
        /\ osMounted' = IF outcome = "exit-0" THEN osMounted \ {volume} ELSE osMounted
        /\ dtrace' = dtrace \o (IF outcome = "throws" THEN <<"detach", "warning">>
                                  ELSE <<"detach">>)
    /\ dpc' = "settle"
    /\ UNCHANGED <<dcaller, dmgFile, callback, volume, mounted, inflight, dret, dcalls,
                   mountsOk>>

\* macos_dmg_setup.ts:21-33  finally block when mounted: hdiutil detach with
\* ignoreReturnCode, a thrown error is only logged
FinallyDetach ==
    /\ dpc = "finally"
    /\ mounted
    /\ detachAttempts' = detachAttempts + 1
    /\ \E outcome \in {"exit-0", "exit-nonzero", "throws"} :
        /\ osMounted' = IF outcome = "exit-0" THEN osMounted \ {volume} ELSE osMounted
        /\ dtrace' = dtrace \o (IF outcome = "throws" THEN <<"detach", "warning">>
                                  ELSE <<"detach">>)
    /\ dpc' = "settle"
    /\ UNCHANGED <<dcaller, dmgFile, callback, volume, mounted, inflight, dret, dcalls,
                   mountsOk>>

\* macos_dmg_setup.ts:21-23  finally block when the mount never succeeded
FinallySkip ==
    /\ dpc = "finally"
    /\ ~mounted
    /\ dpc' = "settle"
    /\ UNCHANGED <<dcaller, dmgFile, callback, volume, mounted, inflight, dret, dtrace,
                   dcalls, mountsOk, detachAttempts, osMounted>>

\* macos_dmg_setup.ts:20,34  after the finally block: return volume, or the
\* exception of the try block continues to the caller
DmgSettle ==
    /\ dpc = "settle"
    /\ IF inflight = None
       THEN /\ dret' = [kind |-> "returned", value |-> volume]
            /\ dtrace' = Append(dtrace, "returned")
       ELSE /\ dret' = [kind |-> "rejected", error |-> inflight]
            /\ dtrace' = Append(dtrace, "rejected")
    /\ dpc' = "done"
    /\ UNCHANGED <<dcaller, dmgFile, callback, volume, mounted, inflight, dcalls,
                   mountsOk, detachAttempts, osMounted>>

\* ------------------------------------------------------------------------
\* Tool catalog (tool_setup.ts)
\* ------------------------------------------------------------------------
SMCTL == "smctl"
SMTOOLS == "smtools"
SMPKCS11 == "smpkcs11"
SMCTK == "smctk"
SCD == "ssm-scd"

ToolNames == {SMCTL, SMTOOLS, SMPKCS11, SMCTK, SCD}

\* qulifiedToolName: `${name}-${os}-${arch}`, kept as its three parts
qulifiedToolName(name, os, arch) == <<name, os, arch>>

smtoolsWindowsBundle == "smtools-win32-x64"
smtoolsLinuxBundle == "smtools-linux-x64"

\* an optional metadata field that is not set
NoFlag == "undefined"

smctlValues ==
    [name |-> SMCTL, fName |-> "smctl", dlName |-> "none", toolType |-> "EXECUTABLE",
     versionFlag |-> "-v", archived |-> FALSE, archiveType |-> "FILE",
     explodedDirectoryName |-> NoFlag, executePermissionRequired |-> FALSE,
     cacheHitSetup |-> FALSE, needPKCS11Config |-> FALSE, createSymlink |-> FALSE]

smctlMacValues ==
    [smctlValues EXCEPT !.archived = TRUE, !.archiveType = "DMG",
                        !.fName = "smctl-mac-x64", !.dlName = "smctl-mac-x64.dmg",
                        !.createSymlink = TRUE]

scdMacValues ==
    [name |-> SCD, fName |-> "ssm-scd-x64", dlName |-> "ssm-scd-x64.dmg",
     toolType |-> "EXECUTABLE", versionFlag |-> "-v", archived |-> TRUE,
     archiveType |-> "DMG", explodedDirectoryName |-> NoFlag,
     executePermissionRequired |-> FALSE, cacheHitSetup |-> FALSE,
     needPKCS11Config |-> FALSE, createSymlink |-> FALSE]

\* a variant of the smctk entry that declares the zip a plain file
smctkMacValuesPlainFile ==
    [name |-> SMCTK, fName |-> "smctk-apple-any", dlName |-> "DigiCert SSM Signing Clients.zip",
     toolType |-> "ARCHIVE", versionFlag |-> NoFlag, archived |-> FALSE,
     archiveType |-> "FILE", explodedDirectoryName |-> NoFlag,
     executePermissionRequired |-> FALSE, cacheHitSetup |-> FALSE,
     needPKCS11Config |-> FALSE, createSymlink |-> FALSE]

smctkMacValues ==
    [name |-> SMCTK, fName |-> "smctk-apple-any", dlName |-> "DigiCert SSM Signing Clients.zip",
     toolType |-> "ARCHIVE", versionFlag |-> NoFlag, archived |-> TRUE,
     archiveType |-> "ZIP", explodedDirectoryName |-> NoFlag,
     executePermissionRequired |-> FALSE, cacheHitSetup |-> FALSE,
     needPKCS11Config |-> FALSE, createSymlink |-> FALSE]

smpkcs11MacValues ==
    [name |-> SMPKCS11, fName |-> "smpkcs11.dylib", dlName |-> "smpkcs11.dylib.dmg",
     toolType |-> "LIBRARY", versionFlag |-> NoFlag, archived |-> TRUE,
     archiveType |-> "DMG", explodedDirectoryName |-> NoFlag,
     executePermissionRequired |-> FALSE, cacheHitSetup |-> FALSE,
     needPKCS11Config |-> TRUE, createSymlink |-> FALSE]

smtoolsWindowsValues ==
    [name |-> smtoolsWindowsBundle, fName |-> "smtools-windows-x64.msi",
     dlName |-> "smtools-windows-x64.msi", toolType |-> "ARCHIVE", versionFlag |-> NoFlag,
     archived |-> TRUE, archiveType |-> "MSI", explodedDirectoryName |-> NoFlag,
     executePermissionRequired |-> FALSE, cacheHitSetup |-> TRUE,
     needPKCS11Config |-> TRUE, createSymlink |-> FALSE]

smtoolsLinuxValues ==
    [name |-> smtoolsLinuxBundle, fName |-> "smtools-linux-x64.tar.gz",
     dlName |-> "smtools-linux-x64.tar.gz", toolType |-> "ARCHIVE", versionFlag |-> NoFlag,
     archived |-> TRUE, archiveType |-> "TAR", explodedDirectoryName |-> smtoolsLinuxBundle,
     executePermissionRequired |-> TRUE, cacheHitSetup |-> FALSE,
     needPKCS11Config |-> TRUE, createSymlink |-> FALSE]

CatalogKeys ==
    {qulifiedToolName(SMCTL, "win32", "x64"), qulifiedToolName(SMCTL, "linux", "x64"),
     qulifiedToolName(SMTOOLS, "win32", "x64"), qulifiedToolName(SMTOOLS, "linux", "x64")}
    \cup {qulifiedToolName(n, "darwin", a) : n \in {SMCTL, SMPKCS11, SMCTK, SCD},
                                             a \in {"x64", "arm64"}}

staticToolDefintions ==
    [k \in CatalogKeys |->
        CASE k = qulifiedToolName(SMCTL, "win32", "x64") ->
                [smctlValues EXCEPT !.dlName = "smctl.exe", !.fName = "smctl.exe"]
          [] k = qulifiedToolName(SMCTL, "linux", "x64") ->
                [smctlValues EXCEPT !.dlName = "smctl", !.executePermissionRequired = TRUE]
          [] k = qulifiedToolName(SMTOOLS, "win32", "x64") -> smtoolsWindowsValues
          [] k = qulifiedToolName(SMTOOLS, "linux", "x64") -> smtoolsLinuxValues
          [] k[1] = SMCTL -> smctlMacValues
          [] k[1] = SMPKCS11 -> smpkcs11MacValues
          [] k[1] = SMCTK -> smctkMacValues
          [] OTHER -> scdMacValues]

\* a lookup that falls back to the Linux smctl entry for an unknown key
CatalogGetOrDefault(tk) ==
    IF tk \in CatalogKeys THEN staticToolDefintions[tk]
    ELSE staticToolDefintions[qulifiedToolName(SMCTL, "linux", "x64")]

\* staticToolDefintions.get(tk): the metadata, or undefined
CatalogGet(tk) == IF tk \in CatalogKeys THEN staticToolDefintions[tk] ELSE None

\* ------------------------------------------------------------------------
\* Strings of the checksum file and of versions: sequences of atoms, an atom
\* being a whitespace character or a run of other characters
\* ------------------------------------------------------------------------
Whitespace == {" ", "\t", "\n"}

RECURSIVE UpToFirstSpace(_)
\* content.split(' ')[0]
UpToFirstSpace(str) ==
    IF str = <<>> \/ Head(str) = " " THEN <<>>
    ELSE <<Head(str)>> \o UpToFirstSpace(Tail(str))

RECURSIVE TrimStart(_)
TrimStart(str) ==
    IF str # <<>> /\ Head(str) \in Whitespace THEN TrimStart(Tail(str)) ELSE str

RECURSIVE TrimEnd(_)
TrimEnd(str) ==
    IF str # <<>> /\ str[Len(str)] \in Whitespace
    THEN TrimEnd(SubSeq(str, 1, Len(str) - 1)) ELSE str

\* String.prototype.trim
Trim(str) == TrimEnd(TrimStart(str))

\* tool_setup.ts:271  content.split(' ')[0].trim()
ChecksumOf(content) == Trim(UpToFirstSpace(content))

\* tool_setup.ts:273  `0.0.0-${checksum}`
ChecksumVersion(content) == <<"0.0.0-">> \o ChecksumOf(content)

\* tool_setup.ts:23  VERSION, the cache-version input
VERSION == <<"1.0.0">>

\* contents the CDN may serve for <download URL>.sha256
ChecksumFiles ==
    {<<"deadbeef", " ", " ", "smctl">>,
     <<"deadbeef", "\t", "smctl">>,
     <<"cafe", "\n">>}

\* ------------------------------------------------------------------------
\* Acquisition pipeline: setupTool -> setupToolInternal -> cachedSetup
\* ------------------------------------------------------------------------
MaxAcquisitions == 2

VARIABLES
    platform,                 \* core.platform.platform
    arch,                     \* core.platform.arch
    useBinarySha256Checksum,  \* input use-binary-sha256-checksum
    useGithubCachingService,  \* input use-github-caching-service
    isSelfHosted,             \* utils.isSelfHosted
    cacheFeatureAvailable,    \* cache.isFeatureAvailable()
    toolCacheDir,             \* RUNNER_TOOL_CACHE is set
    cdn,                      \* input digicert-cdn: <<protocol, rest of the URL>>
    apc,                      \* position of the running acquisition
    name,                     \* argument of setupTool
    tm,                       \* metadata found for the qualified name
    tryGithubCache,           \* setupTool.tryGithubCache
    cacheHit,                 \* setupTool.cacheHit
    content,                  \* content of the downloaded checksum file
    version,                  \* cachedSetup.version
    toolPath,                 \* cachedSetup.toolPath
    downloadedPath,           \* cachedSetup.downloadedPath
    outputDir,                \* cachedSetup.outputDir
    atrace,                   \* what this acquisition did, in order
    aret,                     \* how setupTool settled
    acqs,                     \* number of setupTool calls so far
    prev,                     \* summary of the acquisition before this one
    localCache,               \* local tool cache: set of <<tool name, version>>
    remoteCache,              \* remote cache: requested name -> entry of its key
    saving,                   \* names whose saveCache promise is still pending
    libSetup,                 \* state of the setupLibraries promise of cacheHitSetup
    rv,                       \* path setupToolInternal resolves with
    files,                    \* what exists under the cached tool directories
    outputs,                  \* values published with core.setOutput
    envPath,                  \* directories added with core.addPath
    tmpCount                  \* temporary directories created so far

avars == <<platform, arch, useBinarySha256Checksum, useGithubCachingService, isSelfHosted,
           cacheFeatureAvailable, toolCacheDir, cdn, apc, name, tm, tryGithubCache, cacheHit,
           content, version, toolPath, downloadedPath, outputDir, atrace, aret, acqs, prev,
           localCache, remoteCache, saving, libSetup, envPath, tmpCount, rv, files,
           outputs>>

envvars == <<platform, arch, useBinarySha256Checksum, useGithubCachingService, isSelfHosted,
             cacheFeatureAvailable, toolCacheDir, cdn>>

Platforms == {<<"win32", "x64">>, <<"linux", "x64">>, <<"darwin", "x64">>,
              <<"darwin", "arm64">>, <<"linux", "arm64">>}

\* <<isSelfHosted, cacheFeatureAvailable, useGithubCachingService, toolCacheDir>>:
\* the run that may use the remote cache, and the runs that lack one condition
RunnerConfigs ==
    {<<FALSE, TRUE, TRUE, TRUE>>, <<TRUE, TRUE, TRUE, TRUE>>, <<FALSE, FALSE, TRUE, TRUE>>,
     <<FALSE, TRUE, FALSE, TRUE>>, <<FALSE, TRUE, TRUE, FALSE>>}

\* the run on a self-hosted machine, which never uses the remote cache
SelfHostedConfig == <<TRUE, TRUE, TRUE, TRUE>>

\* values of the input digicert-cdn: the default, a plain-http base and a
\* base without a protocol
DefaultCdn == <<"https:", "//pki-downloads.digicert.com/stm/latest">>
CdnBases == {DefaultCdn, <<"http:", "//cdn.example.com">>, <<"", "cdn.example.com">>}

\* tc.downloadTool can only request a URL that names its protocol
UrlHasProtocol(url) == url[1][1] # ""

Undefined == [kind |-> "undefined"]

\* a key the remote cache has no entry for
NoEntry == [present |-> FALSE, versions |-> {}]

Err(msg, by) == [kind |-> "Error", message |-> msg, by |-> by]

\* what tc.downloadTool rejects with
DownloadError(url) ==
    IF UrlHasProtocol(url) THEN Err("Unable to reach CDN", "downloadTool")
    ELSE Err("Invalid URL", "downloadTool")

\* tool_setup.ts:363  `${name}-${cache-version}-${platform}-${arch}`
CacheKey(n) == <<n, VERSION, platform, arch>>

\* tool_setup.ts:232-235  `${cdn}/${tool.dlName}`
downloadUrl(tool) == <<cdn, "/", tool.dlName>>

\* path of a local cache entry, as tc.find and tc.cacheDir report it
CachedPath(toolName, ver) == <<"toolcache", toolName, ver>>

AcqIdle ==
    /\ apc = "idle"
    /\ name = "none"
    /\ tm = None
    /\ tryGithubCache = FALSE
    /\ cacheHit = Undefined
    /\ content = <<>>
    /\ version = <<>>
    /\ toolPath = <<>>
    /\ downloadedPath = <<>>
    /\ outputDir = <<>>
    /\ atrace = <<>>
    /\ aret = None
    /\ acqs = 0
    /\ prev = None
    /\ localCache = {}
    /\ saving = {}
    /\ libSetup = "none"
    /\ envPath = {}
    /\ tmpCount = 0
    /\ rv = <<>>
    /\ files = [executable |-> {}, symlinks |-> {}, cfg |-> {}, cfgWrites |-> 0]
    /\ outputs = [PKCS11_CONFIG |-> None]

AcqInit ==
    /\ \E pa \in Platforms : platform = pa[1] /\ arch = pa[2]
    /\ useBinarySha256Checksum \in BOOLEAN
    /\ \E cfg \in RunnerConfigs :
        /\ isSelfHosted = cfg[1]
        /\ cacheFeatureAvailable = cfg[2]
        /\ useGithubCachingService = cfg[3]
        /\ toolCacheDir = cfg[4]
        /\ remoteCache \in
              {[n \in ToolNames |-> NoEntry]} \cup
              (IF cfg = <<FALSE, TRUE, TRUE, TRUE>>
               THEN {[n \in ToolNames |-> [present |-> TRUE, versions |-> {VERSION}]]}
               ELSE {})
        /\ \E c \in (IF cfg = SelfHostedConfig THEN CdnBases ELSE {DefaultCdn}) : cdn = c
    /\ AcqIdle

\* summary of the acquisition that just finished
Summary ==
    IF acqs = 0 THEN None
    ELSE [name |-> name, version |-> version, kind |-> aret.kind,
          localHit |-> CountOf(atrace, "find-hit") = 1,
          downloads |-> CountOf(atrace, "download")]

\* a variant of setupTool that uses the remote cache on self-hosted machines too
SetupToolIgnoresSelfHosted ==
    /\ apc \in {"idle", "done"}
    /\ acqs < MaxAcquisitions
    /\ \E n \in (IF acqs = 0 THEN ToolNames ELSE {name}) :
        LET tk == qulifiedToolName(n, platform, arch)
            toolMetadata == CatalogGet(tk)
            try == cacheFeatureAvailable /\ useGithubCachingService
        IN
        /\ name' = n
        /\ tm' = toolMetadata
        /\ IF toolMetadata = None
           THEN /\ tryGithubCache' = FALSE
                /\ atrace' = <<"warn-not-supported">>
                /\ aret' = Undefined
                /\ apc' = "done"
           ELSE /\ tryGithubCache' = try
                /\ atrace' = <<>>
                /\ aret' = None
                /\ apc' = IF try /\ toolCacheDir THEN "restore" ELSE "resolve"
    /\ prev' = Summary
    /\ acqs' = acqs + 1
    /\ cacheHit' = Undefined
    /\ content' = <<>>
    /\ version' = <<>>
    /\ toolPath' = <<>>
    /\ downloadedPath' = <<>>
    /\ outputDir' = <<>>
    /\ UNCHANGED <<envvars, localCache, remoteCache, saving, libSetup, envPath, tmpCount, rv, files, outputs>>

\* tool_setup.ts:351-366  setupTool up to the restore attempt; the caller asks
\* for the same tool in every call of a run
SetupTool ==
    /\ apc \in {"idle", "done"}
    /\ acqs < MaxAcquisitions
    /\ \E n \in (IF acqs = 0 THEN ToolNames ELSE {name}) :
        LET tk == qulifiedToolName(n, platform, arch)
            toolMetadata == CatalogGet(tk)
            try == ~isSelfHosted /\ cacheFeatureAvailable /\ useGithubCachingService
        IN
        /\ name' = n
        /\ tm' = toolMetadata
        /\ IF toolMetadata = None
           THEN /\ tryGithubCache' = FALSE
                /\ atrace' = <<"warn-not-supported">>
                /\ aret' = Undefined
                /\ apc' = "done"
           ELSE /\ tryGithubCache' = try
                /\ atrace' = <<>>
                /\ aret' = None
                /\ apc' = IF try /\ toolCacheDir THEN "restore" ELSE "resolve"
    /\ prev' = Summary
    /\ acqs' = acqs + 1
    /\ cacheHit' = Undefined
    /\ content' = <<>>
    /\ version' = <<>>
    /\ toolPath' = <<>>
    /\ downloadedPath' = <<>>
    /\ outputDir' = <<>>
    /\ UNCHANGED <<envvars, localCache, remoteCache, saving, libSetup, envPath, tmpCount, rv, files, outputs>>

\* tool_setup.ts:366-373  cache.restoreCache resolves: a hit restores the saved
\* entries of the tool into the local cache directory
RestoreCacheResolves ==
    /\ apc = "restore"
    /\ IF remoteCache[name].present
       THEN /\ cacheHit' = [kind |-> "key", key |-> CacheKey(name)]
            /\ localCache' = localCache \cup {<<tm.name, v>> : v \in remoteCache[name].versions}
            /\ files' = IF tm.needPKCS11Config
                        THEN [files EXCEPT !.cfg = @ \cup {CachedPath(tm.name, v) :
                                                              v \in remoteCache[name].versions}]
                        ELSE files
            /\ atrace' = atrace \o <<"restore", "restore-hit">>
       ELSE /\ cacheHit' = Undefined
            /\ localCache' = localCache
            /\ files' = files
            /\ atrace' = atrace \o <<"restore", "restore-miss">>
    /\ apc' = "resolve"
    /\ UNCHANGED <<envvars, name, tm, tryGithubCache, content, version, toolPath, downloadedPath,
                   outputDir, aret, acqs, prev, remoteCache, saving, libSetup, envPath,
                   tmpCount, rv, outputs>>

\* a variant in which a failed restore counts as a hit
RestoreCacheRejectsAsHit ==
    /\ apc = "restore"
    /\ cacheHit' = [kind |-> "key", key |-> CacheKey(name)]
    /\ atrace' = atrace \o <<"restore", "restore-failed">>
    /\ apc' = "resolve"
    /\ UNCHANGED <<envvars, name, tm, tryGithubCache, content, version, toolPath,
                   downloadedPath, outputDir, aret, acqs, prev, localCache, remoteCache,
                   saving, libSetup, envPath, tmpCount, rv, files, outputs>>

\* tool_setup.ts:370-372  cache.restoreCache rejects: only a warning
RestoreCacheRejects ==
    /\ apc = "restore"
    /\ atrace' = atrace \o <<"restore", "restore-failed">>
    /\ apc' = "resolve"
    /\ UNCHANGED <<envvars, name, tm, tryGithubCache, cacheHit, content, version, toolPath,
                   downloadedPath, outputDir, aret, acqs, prev, localCache, remoteCache,
                   saving, libSetup, envPath, tmpCount, rv, files, outputs>>

\* tool_setup.ts:263-265,280  checksum versioning disabled: version = VERSION
ResolveDeclared ==
    /\ apc = "resolve"
    /\ ~useBinarySha256Checksum
    /\ version' = VERSION
    /\ atrace' = Append(atrace, "version")
    /\ apc' = "find"
    /\ UNCHANGED <<envvars, name, tm, tryGithubCache, cacheHit, content, toolPath, downloadedPath,
                   outputDir, aret, acqs, prev, localCache, remoteCache, saving, libSetup,
                   envPath, tmpCount, rv, files, outputs>>

\* tool_setup.ts:265-273  the checksum file is downloaded and read
ResolveChecksum ==
    /\ apc = "resolve"
    /\ useBinarySha256Checksum
    /\ UrlHasProtocol(downloadUrl(tm))
    /\ \E c \in ChecksumFiles :
        /\ content' = c
        /\ version' = ChecksumVersion(c)
    /\ atrace' = atrace \o <<"checksum-fetch", "version">>
    /\ apc' = "find"
    /\ UNCHANGED <<envvars, name, tm, tryGithubCache, cacheHit, toolPath, downloadedPath,
                   outputDir, aret, acqs, prev, localCache, remoteCache, saving, libSetup,
                   envPath, tmpCount, rv, files, outputs>>

\* ResolveChecksumFails that lets the failure reject the acquisition
ResolveChecksumFailsRejects ==
    /\ apc = "resolve"
    /\ useBinarySha256Checksum
    /\ atrace' = atrace \o <<"checksum-fetch", "checksum-failed">>
    /\ aret' = [kind |-> "rejected", error |-> Err("SHA256 file not found", "downloadTool")]
    /\ apc' = "done"
    /\ UNCHANGED <<envvars, name, tm, tryGithubCache, cacheHit, content, version, toolPath,
                   downloadedPath, outputDir, acqs, prev, localCache, remoteCache, saving,
                   libSetup, envPath, tmpCount, rv, files, outputs>>

\* tool_setup.ts:268,274-278  downloading or reading the checksum file fails:
\* two warnings and the fallback to VERSION
ResolveChecksumFails ==
    /\ apc = "resolve"
    /\ useBinarySha256Checksum
    /\ version' = VERSION
    /\ atrace' = atrace \o <<"checksum-fetch", "checksum-failed", "version">>
    /\ apc' = "find"
    /\ UNCHANGED <<envvars, name, tm, tryGithubCache, cacheHit, content, toolPath, downloadedPath,
                   outputDir, aret, acqs, prev, localCache, remoteCache, saving, libSetup,
                   envPath, tmpCount, rv, files, outputs>>

\* position after the local cache entry exists (tool_setup.ts:309-317)
AfterChmod(tool) ==
    IF tool.createSymlink THEN "symlink"
    ELSE IF tool.needPKCS11Config THEN "pkcs11" ELSE "walk"

\* a variant of the hit path that goes past the PKCS#11 config
FindHitSkipsConfig ==
    /\ apc = "find"
    /\ <<tm.name, version>> \in localCache
    /\ toolPath' = CachedPath(tm.name, version)
    /\ atrace' = Append(atrace, "find-hit")
    /\ apc' = IF tm.createSymlink THEN "symlink" ELSE "walk"
    /\ UNCHANGED <<envvars, name, tm, tryGithubCache, cacheHit, content, version, downloadedPath,
                   outputDir, aret, acqs, prev, localCache, remoteCache, saving, libSetup,
                   envPath, tmpCount, rv, files, outputs>>

\* tool_setup.ts:282-284  tc.find hits
FindHit ==
    /\ apc = "find"
    /\ <<tm.name, version>> \in localCache
    /\ toolPath' = CachedPath(tm.name, version)
    /\ atrace' = Append(atrace, "find-hit")
    /\ apc' = AfterChmod(tm)
    /\ UNCHANGED <<envvars, name, tm, tryGithubCache, cacheHit, content, version, downloadedPath,
                   outputDir, aret, acqs, prev, localCache, remoteCache, saving, libSetup,
                   envPath, tmpCount, rv, files, outputs>>

\* a variant that goes on to the download whatever tc.find returned
FindMissAlways ==
    /\ apc = "find"
    /\ atrace' = Append(atrace, "find-miss")
    /\ apc' = "download"
    /\ UNCHANGED <<envvars, name, tm, tryGithubCache, cacheHit, content, version, toolPath,
                   downloadedPath, outputDir, aret, acqs, prev, localCache, remoteCache,
                   saving, libSetup, envPath, tmpCount, rv, files, outputs>>

\* tool_setup.ts:282-286  tc.find misses
FindMiss ==
    /\ apc = "find"
    /\ <<tm.name, version>> \notin localCache
    /\ atrace' = Append(atrace, "find-miss")
    /\ apc' = "download"
    /\ UNCHANGED <<envvars, name, tm, tryGithubCache, cacheHit, content, version, toolPath,
                   downloadedPath, outputDir, aret, acqs, prev, localCache, remoteCache,
                   saving, libSetup, envPath, tmpCount, rv, files, outputs>>

\* tool_setup.ts:287-290  tc.downloadTool(toolDownloadUrl) resolves
DownloadResolves ==
    /\ apc = "download"
    /\ UrlHasProtocol(downloadUrl(tm))
    /\ downloadedPath' = <<"download", downloadUrl(tm)>>
    /\ atrace' = Append(atrace, "download")
    /\ apc' = "postDownload"
    /\ UNCHANGED <<envvars, name, tm, tryGithubCache, cacheHit, content, version, toolPath,
                   outputDir, aret, acqs, prev, localCache, remoteCache, saving, libSetup,
                   envPath, tmpCount, rv, files, outputs>>

\* DownloadRejects whose error is swallowed, the pipeline going on
DownloadRejectsSwallowed ==
    /\ apc = "download"
    /\ atrace' = atrace \o <<"download", "download-failed">>
    /\ apc' = "postDownload"
    /\ UNCHANGED <<envvars, name, tm, tryGithubCache, cacheHit, content, version, toolPath,
                   downloadedPath, outputDir, aret, acqs, prev, localCache, remoteCache,
                   saving, libSetup, envPath, tmpCount, rv, files, outputs>>

\* tool_setup.ts:287  tc.downloadTool(toolDownloadUrl) rejects: called once,
\* the rejection leaves cachedSetup, setupToolInternal and setupTool
DownloadRejects ==
    /\ apc = "download"
    /\ atrace' = atrace \o <<"download", "download-failed">>
    /\ aret' = [kind |-> "rejected", error |-> DownloadError(downloadUrl(tm))]
    /\ apc' = "done"
    /\ UNCHANGED <<envvars, name, tm, tryGithubCache, cacheHit, content, version, toolPath,
                   downloadedPath, outputDir, acqs, prev, localCache, remoteCache, saving,
                   libSetup, envPath, tmpCount, rv, files, outputs>>

callvars == <<name, tm, tryGithubCache, cacheHit, content, version>>
bgvars == <<remoteCache, saving, libSetup>>

Reject(e) == aret' = [kind |-> "rejected", error |-> e] /\ apc' = "done"

\* a variant of the extraction step that runs the execute-bit normalization
\* on the extraction output, before anything is stored
ExtractResolvesChmodFirst ==
    /\ apc = "postDownload"
    /\ tm.archiveType # "DMG"
    /\ tmpCount' = tmpCount + 1
    /\ outputDir' = <<"tmp", "D_", tmpCount + 1>>
    /\ atrace' = Append(atrace, "extract")
    /\ apc' = IF tm.executePermissionRequired THEN "chmod" ELSE "cacheDir"
    /\ UNCHANGED <<envvars, callvars, toolPath, downloadedPath, aret, acqs, prev,
                   localCache, bgvars, envPath, rv, files, outputs>>

\* tool_setup.ts:237-254 with file_noop_setup.ts, zip_setup.ts and the MSI
\* installer: the archive kinds other than DMG, unpacked into a fresh directory
ExtractResolves ==
    /\ apc = "postDownload"
    /\ tm.archiveType # "DMG"
    /\ tmpCount' = tmpCount + 1
    /\ outputDir' = <<"tmp", "D_", tmpCount + 1>>
    /\ atrace' = Append(atrace, "extract")
    /\ apc' = "cacheDir"
    /\ UNCHANGED <<envvars, callvars, toolPath, downloadedPath, aret, acqs, prev,
                   localCache, bgvars, envPath, rv, files, outputs>>

\* the unpacking or installation fails: postDownload rejects
ExtractRejects ==
    /\ apc = "postDownload"
    /\ tm.archiveType # "DMG"
    /\ tmpCount' = tmpCount + 1
    /\ atrace' = Append(atrace, "extract-failed")
    /\ Reject(Err("Extraction failed", tm.archiveType))
    /\ UNCHANGED <<envvars, callvars, toolPath, downloadedPath, outputDir, acqs, prev,
                   localCache, bgvars, envPath, rv, files, outputs>>

\* tool_setup.ts:243-244,292-294  postDownload hands a DMG to extractDmg with
\* the logging callback, which never throws
PostDownloadDmg ==
    /\ apc = "postDownload"
    /\ tm.archiveType = "DMG"
    /\ ExtractDmgEnter("postDownload", tm.dlName, "resolves")
    /\ apc' = "extractDmg"
    /\ UNCHANGED <<envvars, callvars, toolPath, downloadedPath, outputDir, atrace, aret,
                   acqs, prev, localCache, bgvars, envPath, tmpCount, rv, files, outputs>>

\* extractDmg has settled and its caller has taken the result
ExtractDmgLeave ==
    /\ dpc' = "idle"
    /\ dcaller' = "none"
    /\ dmgFile' = "none"
    /\ callback' = "none"
    /\ volume' = <<>>
    /\ mounted' = FALSE
    /\ inflight' = None
    /\ dret' = None
    /\ dtrace' = <<>>
    /\ UNCHANGED <<dcalls, mountsOk, detachAttempts, osMounted>>

\* tool_setup.ts:292  the await on postDownload for a DMG settles
ExtractDmgSettled ==
    /\ apc = "extractDmg"
    /\ dpc = "done"
    /\ ExtractDmgLeave
    /\ IF dret.kind = "returned"
       THEN /\ outputDir' = dret.value
            /\ atrace' = Append(atrace, "extract")
            /\ apc' = "cacheDir"
            /\ aret' = aret
       ELSE /\ outputDir' = outputDir
            /\ atrace' = Append(atrace, "extract-failed")
            /\ Reject(dret.error)
    /\ UNCHANGED <<envvars, callvars, toolPath, downloadedPath, acqs, prev,
                   localCache, bgvars, envPath, tmpCount, rv, files, outputs>>

\* the directory handed to tc.cacheDir still exists: a detached volume is gone
SourceAvailable ==
    tm.archiveType = "DMG" => outputDir \in osMounted

\* the temporary directories that exist: extractZip, extractTar, installMsi
\* and wrapInDirectory create one per call and nothing removes it
ExistingTmpDirs == {<<"tmp", "D_", i>> : i \in 1..tmpCount}

\* CacheDirResolves that stores the tool under the declared cache-version
CacheDirResolvesDeclared ==
    /\ apc = "cacheDir"
    /\ SourceAvailable
    /\ toolPath' = CachedPath(tm.name, VERSION)
    /\ localCache' = localCache \cup {<<tm.name, VERSION>>}
    /\ atrace' = Append(atrace, "cacheDir")
    /\ apc' = IF tm.executePermissionRequired THEN "chmod" ELSE AfterChmod(tm)
    /\ UNCHANGED <<envvars, callvars, downloadedPath, outputDir, aret, acqs, prev,
                   bgvars, envPath, tmpCount, rv, files, outputs>>

\* tool_setup.ts:296-302  tc.cacheDir copies cachePath into the local cache
CacheDirResolves ==
    /\ apc = "cacheDir"
    /\ SourceAvailable
    /\ toolPath' = CachedPath(tm.name, version)
    /\ localCache' = localCache \cup {<<tm.name, version>>}
    /\ atrace' = Append(atrace, "cacheDir")
    /\ apc' = IF tm.executePermissionRequired THEN "chmod" ELSE AfterChmod(tm)
    /\ UNCHANGED <<envvars, callvars, downloadedPath, outputDir, aret, acqs, prev,
                   bgvars, envPath, tmpCount, rv, files, outputs>>

\* the rejections of tc.cacheDir when its source directory is there
CacheDirErrors ==
    {Err(m, "cacheDir") : m \in {"ENOSPC: no space left on device", "EACCES: permission denied",
                                  "EROFS: read-only file system", "ENOTDIR: not a directory"}}

\* the rejection of tc.cacheDir when its source directory does not exist
SourceMissing == Err("ENOENT: no such file or directory", "cacheDir")

\* a cachedSetup that catches the rejection of tc.cacheDir and goes on
CacheDirRejectsSwallowed ==
    /\ apc = "cacheDir"
    /\ atrace' = Append(atrace, "cacheDir-failed")
    /\ apc' = IF tm.executePermissionRequired THEN "chmod" ELSE AfterChmod(tm)
    /\ UNCHANGED <<envvars, callvars, toolPath, downloadedPath, outputDir, aret, acqs, prev,
                   localCache, bgvars, envPath, tmpCount, rv, files, outputs>>

\* tool_setup.ts:299  tc.cacheDir rejects (no space, no permission, no source)
CacheDirRejects ==
    /\ apc = "cacheDir"
    /\ atrace' = Append(atrace, "cacheDir-failed")
    /\ \E e \in (IF SourceAvailable THEN CacheDirErrors ELSE {SourceMissing}) : Reject(e)
    /\ UNCHANGED <<envvars, callvars, toolPath, downloadedPath, outputDir, acqs, prev,
                   localCache, bgvars, envPath, tmpCount, rv, files, outputs>>

\* a chmod that changes no file mode
ChmodResolvesNoChange ==
    /\ apc = "chmod"
    /\ atrace' = Append(atrace, "chmod")
    /\ apc' = AfterChmod(tm)
    /\ UNCHANGED <<envvars, callvars, toolPath, downloadedPath, outputDir, aret, acqs,
                   prev, localCache, bgvars, envPath, tmpCount, rv, files, outputs>>

\* tool_setup.ts:304-306 with add_execute_permission.ts: chmod 0o755 on the files
ChmodResolves ==
    /\ apc = "chmod"
    /\ files' = [files EXCEPT !.executable = @ \cup {toolPath}]
    /\ atrace' = Append(atrace, "chmod")
    /\ apc' = AfterChmod(tm)
    /\ UNCHANGED <<envvars, callvars, toolPath, downloadedPath, outputDir, aret, acqs,
                   prev, localCache, bgvars, envPath, tmpCount, rv, outputs>>

\* add_execute_permission.ts:7-13  readdir, stat or chmod throws
ChmodRejects ==
    /\ apc = "chmod"
    /\ atrace' = Append(atrace, "chmod-failed")
    /\ Reject(Err("chmod failed", "chmod"))
    /\ UNCHANGED <<envvars, callvars, toolPath, downloadedPath, outputDir, acqs, prev,
                   localCache, bgvars, envPath, tmpCount, rv, files, outputs>>

\* a createSymlink whose failure escapes to cachedSetup
CreateSymlinkPropagates ==
    /\ apc = "symlink"
    /\ \E ok \in BOOLEAN :
        /\ files' = [files EXCEPT !.symlinks = IF ok THEN @ \cup {toolPath}
                                                ELSE @ \ {toolPath}]
        /\ atrace' = Append(atrace, IF ok THEN "symlink" ELSE "symlink-failed")
        /\ IF ok THEN apc' = (IF tm.needPKCS11Config THEN "pkcs11" ELSE "walk") /\ aret' = aret
           ELSE Reject(Err("EEXIST: file already exists", "createSymlink"))
    /\ UNCHANGED <<envvars, callvars, toolPath, downloadedPath, outputDir, acqs,
                   prev, localCache, bgvars, envPath, tmpCount, rv, outputs>>

\* tool_setup.ts:78-96,309-311  createSymlink: remove the target, then symlink;
\* a failure of either is caught
CreateSymlink ==
    /\ apc = "symlink"
    /\ \E ok \in BOOLEAN :
        /\ files' = [files EXCEPT !.symlinks = IF ok THEN @ \cup {toolPath}
                                                ELSE @ \ {toolPath}]
        /\ atrace' = Append(atrace, IF ok THEN "symlink" ELSE "symlink-failed")
    /\ apc' = IF tm.needPKCS11Config THEN "pkcs11" ELSE "walk"
    /\ UNCHANGED <<envvars, callvars, toolPath, downloadedPath, outputDir, aret, acqs,
                   prev, localCache, bgvars, envPath, tmpCount, rv, outputs>>

\* path.join: the segments with the separator of the platform between them
RECURSIVE PathJoin(_, _)
PathJoin(segs, sep) ==
    IF Len(segs) <= 1 THEN segs
    ELSE <<Head(segs), sep>> \o PathJoin(Tail(segs), sep)

PathSep == IF platform = "win32" THEN "\\" ELSE "/"

\* String.replaceAll(a, b) on a string of atoms
RECURSIVE ReplaceAll(_, _, _)
ReplaceAll(str, a, b) ==
    IF str = <<>> THEN <<>>
    ELSE (IF Head(str) = a THEN b ELSE <<Head(str)>>) \o ReplaceAll(Tail(str), a, b)

\* a variant of writePKCS11ConfigFile that writes the file whether or not it exists
WritePKCS11ConfigFileAlways ==
    /\ apc = "pkcs11"
    /\ LET cfgPath == PathJoin(toolPath \o <<"pkc11Properties.cfg">>, PathSep) IN
        /\ files' = [files EXCEPT !.cfg = @ \cup {toolPath}, !.cfgWrites = @ + 1]
        /\ outputs' = [outputs EXCEPT !.PKCS11_CONFIG =
                          IF platform = "win32"
                          THEN ReplaceAll(cfgPath, "\\", <<"\\", "\\">>) ELSE cfgPath]
    /\ atrace' = Append(atrace, "pkcs11-written")
    /\ apc' = "walk"
    /\ UNCHANGED <<envvars, callvars, toolPath, downloadedPath, outputDir, aret, acqs,
                   prev, localCache, bgvars, envPath, tmpCount, rv>>

\* tool_setup.ts:190-226  writePKCS11ConfigFile resolves: the file is written
\* when fs.access finds none, and the path is published either way
WritePKCS11ConfigFile ==
    /\ apc = "pkcs11"
    /\ LET cfgPath == PathJoin(toolPath \o <<"pkc11Properties.cfg">>, PathSep)
           exists == toolPath \in files.cfg
       IN
        /\ files' = IF exists THEN files
                    ELSE [files EXCEPT !.cfg = @ \cup {toolPath}, !.cfgWrites = @ + 1]
        /\ outputs' = [outputs EXCEPT !.PKCS11_CONFIG =
                          IF platform = "win32"
                          THEN ReplaceAll(cfgPath, "\\", <<"\\", "\\">>) ELSE cfgPath]
        /\ atrace' = Append(atrace, IF exists THEN "pkcs11-kept" ELSE "pkcs11-written")
    /\ apc' = "walk"
    /\ UNCHANGED <<envvars, callvars, toolPath, downloadedPath, outputDir, aret, acqs,
                   prev, localCache, bgvars, envPath, tmpCount, rv>>

\* tool_setup.ts:219  fs.writeFile of the config rejects
WritePKCS11ConfigFileRejects ==
    /\ apc = "pkcs11"
    /\ toolPath \notin files.cfg
    /\ atrace' = Append(atrace, "pkcs11-failed")
    /\ Reject(Err("writeFile failed", "writePKCS11ConfigFile"))
    /\ UNCHANGED <<envvars, callvars, toolPath, downloadedPath, outputDir, acqs, prev,
                   localCache, bgvars, envPath, tmpCount, rv, files, outputs>>

\* tool_setup.ts:317-331,338-341  walk (never rejects), core.addPath unless the
\* tool is a library, and the path setupToolInternal computes from the result
WalkAndAddPath ==
    /\ apc = "walk"
    /\ IF tm.toolType # "LIBRARY"
       THEN /\ envPath' = envPath \cup {toolPath}
            /\ atrace' = atrace \o <<"walk", "addPath">>
       ELSE /\ envPath' = envPath
            /\ atrace' = atrace \o <<"walk">>
    /\ rv' = IF tm.toolType = "EXECUTABLE" THEN toolPath \o <<tm.fName>> ELSE toolPath
    /\ apc' = IF tm.toolType = "EXECUTABLE" /\ tm.versionFlag # NoFlag
              THEN "versionCheck" ELSE "then"
    /\ UNCHANGED <<envvars, callvars, toolPath, downloadedPath, outputDir, aret, acqs,
                   prev, localCache, bgvars, tmpCount, files, outputs>>

\* tool_setup.ts:343-347  the version check; its failure is only a warning
VersionCheck ==
    /\ apc = "versionCheck"
    /\ \E ok \in BOOLEAN :
        atrace' = Append(atrace, IF ok THEN "versionCheck" ELSE "versionCheck-failed")
    /\ apc' = "then"
    /\ UNCHANGED <<envvars, callvars, toolPath, downloadedPath, outputDir, aret, acqs,
                   prev, localCache, bgvars, envPath, tmpCount, rv, files, outputs>>

\* a variant of the then-handler that calls the hook whatever the restore reported
SetupToolThenHookAlways ==
    /\ apc = "then"
    /\ IF tryGithubCache /\ toolCacheDir
       THEN IF cacheHit # Undefined \/ tm.cacheHitSetup
            THEN /\ saving' = saving
                 /\ IF tm.cacheHitSetup
                    THEN libSetup' = "running" /\ atrace' = Append(atrace, "cacheHitSetup")
                    ELSE libSetup' = libSetup /\ atrace' = atrace
            ELSE /\ saving' = saving \cup {name}
                 /\ libSetup' = libSetup
                 /\ atrace' = Append(atrace, "saveCache")
       ELSE /\ saving' = saving
            /\ libSetup' = libSetup
            /\ atrace' = atrace
    /\ aret' = [kind |-> "returned", value |-> rv]
    /\ apc' = "done"
    /\ UNCHANGED <<envvars, callvars, toolPath, downloadedPath, outputDir, acqs, prev,
                   localCache, remoteCache, envPath, tmpCount, rv, files, outputs>>

\* tool_setup.ts:375-392  the then-handler of setupTool: cacheHitSetup after a
\* remote hit, saveCache (not awaited) after a remote miss, and the result
SetupToolThen ==
    /\ apc = "then"
    /\ IF tryGithubCache /\ toolCacheDir
       THEN IF cacheHit # Undefined
            THEN /\ saving' = saving
                 /\ IF tm.cacheHitSetup
                    THEN libSetup' = "running" /\ atrace' = Append(atrace, "cacheHitSetup")
                    ELSE libSetup' = libSetup /\ atrace' = atrace
            ELSE /\ saving' = saving \cup {name}
                 /\ libSetup' = libSetup
                 /\ atrace' = Append(atrace, "saveCache")
       ELSE /\ saving' = saving
            /\ libSetup' = libSetup
            /\ atrace' = atrace
    /\ aret' = [kind |-> "returned", value |-> rv]
    /\ apc' = "done"
    /\ UNCHANGED <<envvars, callvars, toolPath, downloadedPath, outputDir, acqs, prev,
                   localCache, remoteCache, envPath, tmpCount, rv, files, outputs>>

\* tool_setup.ts:384-386  a pending cache.saveCache resolves: the directory of
\* the tool in the local cache is stored under the key
SaveCacheResolves ==
    /\ \E n \in saving :
        /\ remoteCache' = [remoteCache EXCEPT ![n] =
              [present |-> TRUE,
               versions |-> {e[2] : e \in {c \in localCache :
                    c[1] = CatalogGet(qulifiedToolName(n, platform, arch)).name}}]]
        /\ saving' = saving \ {n}
    /\ UNCHANGED <<envvars, callvars, apc, toolPath, downloadedPath, outputDir, atrace,
                   aret, acqs, prev, localCache, libSetup, envPath, tmpCount, rv, files,
                   outputs>>

\* a variant in which a rejected cache.saveCache rejects the acquisition
SaveCacheRejectsFatal ==
    /\ \E n \in saving : saving' = saving \ {n}
    /\ aret' = [kind |-> "rejected", error |-> Err("Cache service unavailable", "saveCache")]
    /\ UNCHANGED <<envvars, callvars, apc, toolPath, downloadedPath, outputDir, atrace,
                   acqs, prev, localCache, remoteCache, libSetup, envPath, tmpCount,
                   rv, files, outputs>>

\* tool_setup.ts:386-388  a pending cache.saveCache rejects: only a warning
SaveCacheRejects ==
    /\ \E n \in saving : saving' = saving \ {n}
    /\ UNCHANGED <<envvars, callvars, apc, toolPath, downloadedPath, outputDir, atrace,
                   aret, acqs, prev, localCache, remoteCache, libSetup, envPath, tmpCount,
                   rv, files, outputs>>

\* tool_setup.ts:172-174  the setupLibraries promise started by cacheHitSetup
\* settles; nothing awaits it
SetupLibrariesSettles ==
    /\ libSetup = "running"
    /\ libSetup' \in {"done", "failed"}
    /\ UNCHANGED <<envvars, callvars, apc, toolPath, downloadedPath, outputDir, atrace,
                   aret, acqs, prev, localCache, remoteCache, saving, envPath, tmpCount,
                   rv, files, outputs>>

\* ------------------------------------------------------------------------
\* MSI installation: installMsi / uninstallExistingMsi (msi_setup.ts)
\* ------------------------------------------------------------------------
MaxMsiCalls == 2

VARIABLES
    mpc,          \* position in installMsi
    msrc,         \* src
    mcallback,    \* how the callback behaves: "resolves" or "rejects"
    muninstall,   \* outcome of msiexec /x
    mexit,        \* exit code of msiexec /i
    mlog,         \* TRUE iff msiexec wrote tmpInstallationLogFile
    merror,       \* the rejection handed to .catch
    mtmp,         \* tmpDir
    mtrace,       \* calls made by this invocation, in order
    mret,         \* how installMsi settled
    mcalls        \* invocations so far

mvars == <<mpc, msrc, mcallback, muninstall, mexit, mlog, merror, mtmp, mtrace, mret, mcalls>>

MsiFiles == {"/tmp/test.msi", "/tmp/smtools-windows-x64.msi"}

\* an Error whose message is a sequence of text pieces
MsiError(msg) == [kind |-> "Error", message |-> msg]

\* `${error}` of an Error: "Error: " followed by its message
ErrorToString(e) == <<"Error:">> \o e.message

\* seq contains sub as a contiguous run
Contains(seq, sub) ==
    \E i \in 1..(Len(seq) - Len(sub) + 1) : SubSeq(seq, i, i + Len(sub) - 1) = sub

LogContent == <<"ERROR: Installation failed due to insufficient permissions">>
LogReadError == MsiError(<<"ENOENT: no such file or directory">>)
MsiCallbackError == MsiError(<<"Callback processing failed">>)

\* msi_setup.ts:56,66,68  `Installation of ${src} failed. ${detail}`
InstallFailed(src, detail) == MsiError(<<"Installation of", src, "failed.">> \o detail)

\* fs.readFile(tmpInstallationLogFile): the content, or a rejection
ReadLog == IF mlog THEN [ok |-> TRUE, value |-> LogContent]
           ELSE [ok |-> FALSE, value |-> LogReadError.message]

\* msiexec /x is run with ignoreReturnCode: it resolves with any exit code, or throws
UninstallOutcomes ==
    {[settle |-> "resolved", exitCode |-> c] : c \in {0, 1605, 1234}}
    \cup {[settle |-> "rejected", exitCode |-> 1]}

\* msiexec /i is run without ignoreReturnCode: @actions/exec rejects when the
\* process exits non-zero; the unit tests' mock resolves with the exit code
InstallOutcomes ==
    {[settle |-> "resolved", exitCode |-> c] : c \in {0, 1603, 1619}}
    \cup {[settle |-> "rejected", exitCode |-> 1603]}

ExecError(code) == MsiError(<<"The process 'msiexec' failed with exit code", code>>)

MsiIdle ==
    /\ mpc = "idle"
    /\ msrc = "none"
    /\ mcallback = "resolves"
    /\ muninstall = [settle |-> "none", exitCode |-> 0]
    /\ mexit = 0
    /\ mlog = FALSE
    /\ merror = None
    /\ mtmp = <<>>
    /\ mtrace = <<>>
    /\ mret = None
    /\ mcalls = 0

\* a caller invokes installMsi(src, callback)
InstallMsiCall ==
    /\ mpc \in {"idle", "done"}
    /\ mcalls < MaxMsiCalls
    /\ \E src \in MsiFiles, cb \in {"resolves", "rejects"} :
          /\ msrc' = src
          /\ mcallback' = cb
    /\ mpc' = "uninstall"
    /\ mcalls' = mcalls + 1
    /\ muninstall' = [settle |-> "none", exitCode |-> 0]
    /\ mexit' = 0
    /\ mlog' = FALSE
    /\ merror' = None
    /\ mtmp' = <<>>
    /\ mtrace' = <<>>
    /\ mret' = None

\* a variant of uninstallExistingMsi that lets a thrown msiexec error escape
UninstallExistingMsiPropagates ==
    /\ mpc = "uninstall"
    /\ \E out \in UninstallOutcomes :
          /\ muninstall' = out
          /\ IF out.settle = "rejected"
             THEN mpc' = "done" /\ mret' = [kind |-> "rejected", error |-> ExecError("1")]
             ELSE mpc' = "install" /\ mret' = mret
    /\ mtrace' = Append(mtrace, "uninstall")
    /\ UNCHANGED <<msrc, mcallback, mexit, mlog, merror, mtmp, mcalls>>

\* msi_setup.ts:8-37,41  await uninstallExistingMsi(src): every outcome,
\* a thrown error included, becomes a boolean that installMsi ignores
UninstallExistingMsi ==
    /\ mpc = "uninstall"
    /\ \E out \in UninstallOutcomes : muninstall' = out
    /\ mtrace' = Append(mtrace, "uninstall")
    /\ mpc' = "install"
    /\ UNCHANGED <<msrc, mcallback, mexit, mlog, merror, mtmp, mret, mcalls>>

\* msi_setup.ts:43-52  mkdir tmpDir, then msiexec /i ... /le <log>
MsiexecInstall ==
    /\ mpc = "install"
    /\ mtmp' = <<"tmp", "D_", mcalls>>
    /\ mtrace' = Append(mtrace, "install")
    /\ \E out \in InstallOutcomes, log \in BOOLEAN :
          /\ mexit' = out.exitCode
          /\ mlog' = log
          /\ IF out.settle = "resolved"
             THEN mpc' = "then" /\ merror' = merror
             ELSE mpc' = "catch" /\ merror' = ExecError("1603")
    /\ UNCHANGED <<msrc, mcallback, muninstall, mret, mcalls>>

\* msi_setup.ts:53-58  .then: a non-zero exit code reads the log and throws
InstallThen ==
    /\ mpc = "then"
    /\ IF mexit # 0
       THEN /\ merror' = (IF ReadLog.ok THEN InstallFailed(msrc, ReadLog.value)
                          ELSE MsiError(ReadLog.value))
            /\ mpc' = "catch"
       ELSE /\ merror' = merror
            /\ mpc' = "callback"
    /\ UNCHANGED <<msrc, mcallback, muninstall, mexit, mlog, mtmp, mtrace, mret, mcalls>>

\* msi_setup.ts:59-60  await callback(tmpDir); return tmpDir
MsiCallbackResolves ==
    /\ mpc = "callback"
    /\ mcallback = "resolves"
    /\ mtrace' = Append(mtrace, "callback")
    /\ mret' = [kind |-> "returned", value |-> mtmp]
    /\ mpc' = "done"
    /\ UNCHANGED <<msrc, mcallback, muninstall, mexit, mlog, merror, mtmp, mcalls>>

\* msi_setup.ts:59  the callback throws inside .then
MsiCallbackRejects ==
    /\ mpc = "callback"
    /\ mcallback = "rejects"
    /\ mtrace' = Append(mtrace, "callback")
    /\ merror' = MsiCallbackError
    /\ mpc' = "catch"
    /\ UNCHANGED <<msrc, mcallback, muninstall, mexit, mlog, mtmp, mret, mcalls>>

\* msi_setup.ts:62-70  .catch: the try block always throws, either the
\* readFile rejection or the Error carrying the log content; the bare catch
\* discards what it caught and throws the Error built from `error`
InstallCatch ==
    /\ mpc = "catch"
    /\ mret' = [kind |-> "rejected", error |-> InstallFailed(msrc, ErrorToString(merror))]
    /\ mpc' = "done"
    /\ UNCHANGED <<msrc, mcallback, muninstall, mexit, mlog, merror, mtmp, mtrace, mcalls>>

\* ------------------------------------------------------------------------
\* Windows CSP/KSP registration: setupLibraries (windows_library_setup.ts)
\* ------------------------------------------------------------------------
MaxLibCalls == 2

\* windows_library_setup.ts:133-137  the DLLs copied into System32 and SysWOW64
DllCopies == 4

VARIABLES
    lpc,        \* position in setupLibraries
    lpath,      \* smtoolsPath
    ltmp,       \* uniqueTempDir
    lerror,     \* the exception in flight through catch and finally
    lcopied,    \* DLLs copied so far by this call
    ltrace,     \* steps of this call, in order
    lret,       \* how setupLibraries settled
    lcalls,     \* invocations so far
    ldirs,      \* temporary directories that exist
    lscripts    \* batch files that exist, named by their directory

lvars == <<lpc, lpath, ltmp, lerror, lcopied, ltrace, lret, lcalls, ldirs, lscripts>>

SmtoolsPaths == {<<"toolcache", "smtools-win32-x64">>, <<"tmp", "smtools">>}

LibError(msg) == [kind |-> "Error", message |-> msg]

LibIdle ==
    /\ lpc = "idle"
    /\ lpath = <<>>
    /\ ltmp = <<>>
    /\ lerror = None
    /\ lcopied = 0
    /\ ltrace = <<>>
    /\ lret = None
    /\ lcalls = 0
    /\ ldirs = {}
    /\ lscripts = {}

\* windows_library_setup.ts:8,115-116  setupLibraries(smtoolsPath) up to the
\* try block: createSecureTempDir makes a fresh directory, or rejects
SetupLibrariesCall ==
    /\ lpc \in {"idle", "done"}
    /\ lcalls < MaxLibCalls
    /\ \E sp \in SmtoolsPaths : lpath' = sp
    /\ lcalls' = lcalls + 1
    /\ lcopied' = 0
    /\ lerror' = None
    /\ \E ok \in BOOLEAN :
          IF ok
          THEN /\ ltmp' = <<"tmp", "csp-setup-", lcalls + 1>>
               /\ ldirs' = ldirs \cup {ltmp'}
               /\ ltrace' = <<"mkdir">>
               /\ lret' = None
               /\ lpc' = "write"
          ELSE /\ ltmp' = <<>>
               /\ ldirs' = ldirs
               /\ ltrace' = <<"mkdir-failed">>
               /\ lret' = [kind |-> "rejected", error |-> LibError("mkdir failed")]
               /\ lpc' = "done"
    /\ UNCHANGED lscripts

\* a step inside try throws: control goes to catch, which rethrows, then finally
LibThrow(e, step) ==
    /\ lerror' = e
    /\ ltrace' = Append(ltrace, step)
    /\ lpc' = "finally"

\* windows_library_setup.ts:120-123  fs.writeFile(batchFile, ...)
WriteBatchFile ==
    /\ lpc = "write"
    /\ \E ok \in BOOLEAN :
          IF ok
          THEN /\ lscripts' = lscripts \cup {ltmp}
               /\ ltrace' = Append(ltrace, "write")
               /\ lpc' = "ksp"
               /\ lerror' = lerror
          ELSE /\ lscripts' = lscripts
               /\ LibThrow(LibError("write failed"), "write-failed")
    /\ UNCHANGED <<lpath, ltmp, lcopied, lret, lcalls, ldirs>>

\* windows_library_setup.ts:126-128  smctl windows ksp register
KspRegister ==
    /\ lpc = "ksp"
    /\ \E ok \in BOOLEAN :
          IF ok
          THEN /\ ltrace' = Append(ltrace, "ksp") /\ lpc' = "copy" /\ lerror' = lerror
          ELSE LibThrow(LibError("Failed to register KSP"), "ksp-failed")
    /\ UNCHANGED <<lpath, ltmp, lcopied, lret, lcalls, ldirs, lscripts>>

\* windows_library_setup.ts:133-137  the next fs.copyFile
CopyDll ==
    /\ lpc = "copy"
    /\ lcopied < DllCopies
    /\ \E ok \in BOOLEAN :
          IF ok
          THEN /\ lcopied' = lcopied + 1
               /\ ltrace' = ltrace
               /\ lerror' = lerror
               /\ lpc' = IF lcopied + 1 = DllCopies THEN "batch" ELSE "copy"
          ELSE /\ lcopied' = lcopied
               /\ LibThrow(LibError("Source DLL not found"), "copy-failed")
    /\ UNCHANGED <<lpath, ltmp, lret, lcalls, ldirs, lscripts>>

\* windows_library_setup.ts:139-146  the batch file is run with
\* ignoreReturnCode; a non-zero exit code throws
RunBatchFile ==
    /\ lpc = "batch"
    /\ \E exitCode \in {0, 1, 5} :
          IF exitCode = 0
          THEN /\ ltrace' = Append(ltrace, "batch") /\ lpc' = "finally" /\ lerror' = lerror
          ELSE LibThrow([kind |-> "Error", message |-> "Failed to register CSP registry keys",
                         exitCode |-> exitCode], "batch-failed")
    /\ UNCHANGED <<lpath, ltmp, lcopied, lret, lcalls, ldirs, lscripts>>

\* a variant of the cleanup that only runs when the try block completed
LibFinallyOnSuccessOnly ==
    /\ lpc = "finally"
    /\ IF lerror = None
       THEN /\ ldirs' = ldirs \ {ltmp}
            /\ lscripts' = lscripts \ {ltmp}
            /\ ltrace' = Append(ltrace, "rm")
       ELSE UNCHANGED <<ldirs, lscripts, ltrace>>
    /\ lpc' = "settle"
    /\ UNCHANGED <<lpath, ltmp, lerror, lcopied, lret, lcalls>>

\* windows_library_setup.ts:149-154  finally: fs.rm(uniqueTempDir, recursive,
\* force); a rejection of fs.rm is only logged
LibFinally ==
    /\ lpc = "finally"
    /\ \E ok \in BOOLEAN :
          IF ok
          THEN /\ ldirs' = ldirs \ {ltmp}
               /\ lscripts' = lscripts \ {ltmp}
               /\ ltrace' = Append(ltrace, "rm")
          ELSE /\ ldirs' = ldirs
               /\ lscripts' = lscripts
               /\ ltrace' = ltrace \o <<"rm", "rm-failed">>
    /\ lpc' = "settle"
    /\ UNCHANGED <<lpath, ltmp, lerror, lcopied, lret, lcalls>>

\* windows_library_setup.ts:147-155  the promise settles after finally
LibSettle ==
    /\ lpc = "settle"
    /\ lret' = IF lerror = None THEN [kind |-> "returned"]
               ELSE [kind |-> "rejected", error |-> lerror]
    /\ lpc' = "done"
    /\ UNCHANGED <<lpath, ltmp, lerror, lcopied, ltrace, lcalls, ldirs, lscripts>>

\* ------------------------------------------------------------------------
\* Entry point: main (main.ts)
\* ------------------------------------------------------------------------
VARIABLES
    npc,               \* position in main
    isSimpleSigning,   \* the simple-signing-mode input
    mainPlatform,      \* core.platform.platform
    tools,             \* state of the setupTool promise of each tool
    ntrace,            \* events in order: <<"start", t>>, <<"resolved", t>>, ...
    nret,              \* how main() settled
    failed             \* the reason given to core.setFailed

nvars == <<npc, isSimpleSigning, mainPlatform, tools, ntrace, nret, failed>>

\* main.ts:113-118  the array handed to Promise.all, in evaluation order
MacTools == <<SMCTL, SMCTK, SMPKCS11, SCD>>

MainPlatforms == {"win32", "linux", "darwin"}

\* the error a rejected acquisition of tool t carries
ToolError(t) == Err("Unable to reach CDN", t)

MainIdle ==
    /\ npc = "idle"
    /\ tools = [t \in ToolNames |-> "idle"]
    /\ ntrace = <<>>
    /\ nret = None
    /\ failed = None

MainOff == isSimpleSigning = FALSE /\ mainPlatform = "linux" /\ MainIdle

MainInit ==
    /\ isSimpleSigning \in BOOLEAN
    /\ mainPlatform \in MainPlatforms
    /\ MainIdle

\* the tools whose promise main is waiting for
Awaited ==
    IF isSimpleSigning THEN {SMCTL}
    ELSE IF mainPlatform = "darwin" THEN {MacTools[i] : i \in 1..Len(MacTools)}
    ELSE {SMTOOLS}

\* the tools that rejected, and the one that rejected first
Rejected == {t \in ToolNames : tools[t] = "rejected"}
FirstRejected ==
    CHOOSE t \in Rejected :
        \A u \in Rejected : IndexOf(ntrace, <<"rejected", t>>) <= IndexOf(ntrace, <<"rejected", u>>)

\* main.ts:90-112  main up to its first setupTool call
Main ==
    /\ npc = "idle"
    /\ IF ~isSimpleSigning /\ mainPlatform = "darwin"
       THEN /\ npc' = "starting"
            /\ UNCHANGED <<tools, ntrace>>
       ELSE /\ LET t == IF isSimpleSigning THEN SMCTL ELSE SMTOOLS IN
               /\ tools' = [tools EXCEPT ![t] = "pending"]
               /\ ntrace' = Append(ntrace, <<"start", t>>)
            /\ npc' = "awaitOne"
    /\ UNCHANGED <<isSimpleSigning, mainPlatform, nret, failed>>

\* main.ts:113-118  the next element of the array is evaluated: setupTool is
\* called and runs up to its first await; after the last one main awaits
\* Promise.all
MainStartTool ==
    /\ npc = "starting"
    /\ LET i == Len(ntrace) + 1
           t == MacTools[i]
       IN /\ tools' = [tools EXCEPT ![t] = "pending"]
          /\ ntrace' = Append(ntrace, <<"start", t>>)
          /\ npc' = IF i = Len(MacTools) THEN "awaitAll" ELSE "starting"
    /\ UNCHANGED <<isSimpleSigning, mainPlatform, nret, failed>>

\* tool_setup.ts:351-393  a started acquisition resolves with its installed
\* path; it can only go on once main has yielded at an await
ToolResolves(t) ==
    /\ npc # "starting"
    /\ tools[t] = "pending"
    /\ tools' = [tools EXCEPT ![t] = "resolved"]
    /\ ntrace' = Append(ntrace, <<"resolved", t>>)
    /\ UNCHANGED <<npc, isSimpleSigning, mainPlatform, nret, failed>>

\* tool_setup.ts:351-393  a started acquisition rejects
ToolRejects(t) ==
    /\ npc # "starting"
    /\ tools[t] = "pending"
    /\ tools' = [tools EXCEPT ![t] = "rejected"]
    /\ ntrace' = Append(ntrace, <<"rejected", t>>)
    /\ UNCHANGED <<npc, isSimpleSigning, mainPlatform, nret, failed>>

\* main returns
MainReturns ==
    /\ nret' = [kind |-> "returned"]
    /\ ntrace' = Append(ntrace, <<"main", "returned">>)
    /\ npc' = "done"
    /\ UNCHANGED <<isSimpleSigning, mainPlatform, tools, failed>>

\* main.ts:125-127  main rejects and the catch handler calls core.setFailed
MainRejects(reason) ==
    /\ nret' = [kind |-> "rejected", error |-> reason]
    /\ failed' = reason
    /\ ntrace' = Append(ntrace, <<"main", "setFailed">>)
    /\ npc' = "done"
    /\ UNCHANGED <<isSimpleSigning, mainPlatform, tools>>

\* a combinator that fulfils as soon as one of its promises has fulfilled
PromiseAllFulfilsOnFirst ==
    /\ npc = "awaitAll"
    /\ \E t \in Awaited : tools[t] = "resolved"
    /\ MainReturns

\* main.ts:113-120  Promise.all fulfils once every promise has fulfilled
PromiseAllFulfils ==
    /\ npc = "awaitAll"
    /\ \A t \in Awaited : tools[t] = "resolved"
    /\ MainReturns

\* a combinator that waits for every promise to settle before it rejects
PromiseAllRejectsWhenAllSettled ==
    /\ npc = "awaitAll"
    /\ Rejected # {}
    /\ \A t \in Awaited : tools[t] # "pending"
    /\ MainRejects(ToolError(FirstRejected))

\* main.ts:113-118,125-127  Promise.all rejects with the first rejection
PromiseAllRejects ==
    /\ npc = "awaitAll"
    /\ Rejected # {}
    /\ MainRejects(ToolError(FirstRejected))

\* main.ts:99,105,108  await setupTool(...) fulfils
AwaitOneFulfils ==
    /\ npc = "awaitOne"
    /\ \A t \in Awaited : tools[t] = "resolved"
    /\ IF isSimpleSigning
       THEN /\ npc' = "sign"
            /\ UNCHANGED <<isSimpleSigning, mainPlatform, tools, ntrace, nret, failed>>
       ELSE MainReturns

\* main.ts:99,105,108  await setupTool(...) rejects
AwaitOneRejects ==
    /\ npc = "awaitOne"
    /\ Rejected # {}
    /\ MainRejects(ToolError(FirstRejected))

\* main.ts:100  await simplifiedSign(smctl)
SimplifiedSign ==
    /\ npc = "sign"
    /\ \/ MainReturns
       \/ MainRejects(Err("Signing failed", "simplifiedSign"))

\* ------------------------------------------------------------------------
\* Concurrent acquisitions: several setupTool calls in flight at once, as
\* main starts them with Promise.all. A step is what runs between two awaits.
\* ------------------------------------------------------------------------
MaxTasks == 2

VARIABLES
    cname,     \* task -> the name its setupTool call was given
    cplan,     \* task -> the call of this task that fails, "ok" when none does
    cpc,       \* task -> the await the task is suspended at
    chit,      \* task -> setupTool.cacheHit is set
    ctmp,      \* task -> the directory its extraction produced
    ctrace,    \* task -> what the task did, in order
    cret,      \* task -> how its setupTool call settled
    cremote0   \* the remote cache before the calls

cvars == <<cname, cplan, cpc, chit, ctmp, ctrace, cret, cremote0>>

Tasks == 1..MaxTasks

\* the calls main makes on darwin, one per tool, and the same tool asked for
\* by every call
TaskCalls == {[t \in Tasks |-> MacTools[t]], [t \in Tasks |-> SMCTL]}

Plans == {"ok", "restore", "download", "extract", "cacheDir"}

TaskMeta(t) == CatalogGet(qulifiedToolName(cname[t], platform, arch))

\* a variant in which every tool is looked up and stored under one name
ToolCacheKeyShared(t) == <<"tool", VERSION>>

\* tool_setup.ts:281,299  the (name, version) given to tc.find and tc.cacheDir
ToolCacheKey(t) == <<TaskMeta(t).name, VERSION>>

\* tool_setup.ts:360  setupTool.tryGithubCache && cachePath
TryCache ==
    ~isSelfHosted /\ cacheFeatureAvailable /\ useGithubCachingService /\ toolCacheDir

ConcIdle ==
    /\ cname = [t \in Tasks |-> "none"]
    /\ cplan = [t \in Tasks |-> "ok"]
    /\ cpc = [t \in Tasks |-> "off"]
    /\ chit = [t \in Tasks |-> FALSE]
    /\ ctmp = [t \in Tasks |-> <<>>]
    /\ ctrace = [t \in Tasks |-> <<>>]
    /\ cret = [t \in Tasks |-> None]
    /\ cremote0 = None

ConcInit ==
    /\ platform = "darwin" /\ arch \in {"x64", "arm64"}
    /\ useBinarySha256Checksum = FALSE
    /\ isSelfHosted = FALSE /\ cacheFeatureAvailable = TRUE /\ toolCacheDir = TRUE
    /\ useGithubCachingService \in BOOLEAN
    /\ cdn = DefaultCdn
    /\ remoteCache \in {[n \in ToolNames |-> NoEntry],
                        [n \in ToolNames |-> [present |-> TRUE, versions |-> {VERSION}]]}
    /\ AcqIdle
    /\ cname \in TaskCalls
    /\ cplan \in [Tasks -> Plans]
    /\ cpc = [t \in Tasks |-> "idle"]
    /\ chit = [t \in Tasks |-> FALSE]
    /\ ctmp = [t \in Tasks |-> <<>>]
    /\ ctrace = [t \in Tasks |-> <<>>]
    /\ cret = [t \in Tasks |-> None]
    /\ cremote0 = remoteCache

\* tool_setup.ts:263-290  cachedSetup from its start to its first await:
\* tc.find is synchronous, a miss suspends at tc.downloadTool
TaskFind(t, local, done) ==
    IF ToolCacheKey(t) \in local
    THEN /\ cpc' = [cpc EXCEPT ![t] = "walk"]
         /\ ctrace' = [ctrace EXCEPT ![t] = @ \o done \o <<"find-hit">>]
    ELSE /\ cpc' = [cpc EXCEPT ![t] = "download"]
         /\ ctrace' = [ctrace EXCEPT ![t] = @ \o done \o <<"find-miss">>]

TaskRejects(t, by) ==
    /\ cpc' = [cpc EXCEPT ![t] = "done"]
    /\ cret' = [cret EXCEPT ![t] = [kind |-> "rejected", error |-> Err("failed", by)]]

\* tool_setup.ts:351-366  Promise.all evaluates its calls in order; each call
\* runs to its first await: cache.restoreCache, or else tc.downloadTool
CallSetupTool(t) ==
    /\ cpc[t] = "idle"
    /\ \A u \in Tasks : u < t => cpc[u] # "idle"
    /\ IF TryCache
       THEN /\ cpc' = [cpc EXCEPT ![t] = "restore"]
            /\ ctrace' = ctrace
       ELSE TaskFind(t, localCache, <<>>)
    /\ UNCHANGED <<cname, cplan, chit, ctmp, cret, cremote0, localCache, remoteCache,
                   saving, tmpCount>>

\* tool_setup.ts:366-373  the restore settles and the call runs on to tc.find
TaskRestoreSettles(t) ==
    /\ cpc[t] = "restore"
    /\ LET hit == cplan[t] # "restore" /\ remoteCache[cname[t]].present
           local == IF hit
                    THEN localCache \cup {<<ToolCacheKey(t)[1], v>> :
                                              v \in remoteCache[cname[t]].versions}
                    ELSE localCache
       IN /\ chit' = [chit EXCEPT ![t] = hit]
          /\ localCache' = local
          /\ TaskFind(t, local, <<IF hit THEN "restore-hit" ELSE "restore-miss">>)
    /\ UNCHANGED <<cname, cplan, ctmp, cret, cremote0, remoteCache, saving, tmpCount>>

\* tool_setup.ts:287-290  tc.downloadTool settles
TaskDownloadSettles(t) ==
    /\ cpc[t] = "download"
    /\ ctrace' = [ctrace EXCEPT ![t] = Append(@, "download")]
    /\ IF cplan[t] = "download"
       THEN TaskRejects(t, "downloadTool")
       ELSE cpc' = [cpc EXCEPT ![t] = "postDownload"] /\ cret' = cret
    /\ UNCHANGED <<cname, cplan, chit, ctmp, cremote0, localCache, remoteCache, saving,
                   tmpCount>>

\* tool_setup.ts:292-294  postDownload settles: the extraction made a
\* directory with a fresh random name
TaskPostDownloadSettles(t) ==
    /\ cpc[t] = "postDownload"
    /\ tmpCount' = tmpCount + 1
    /\ ctmp' = [ctmp EXCEPT ![t] = IF TaskMeta(t).archiveType = "DMG"
                                   THEN RandomVolume(tmpCount + 1)
                                   ELSE <<"tmp", "D_", tmpCount + 1>>]
    /\ ctrace' = [ctrace EXCEPT ![t] = Append(@, "extract")]
    /\ IF cplan[t] = "extract"
       THEN TaskRejects(t, "postDownload")
       ELSE cpc' = [cpc EXCEPT ![t] = "cacheDir"] /\ cret' = cret
    /\ UNCHANGED <<cname, cplan, chit, cremote0, localCache, remoteCache, saving>>

\* tool_setup.ts:296-302  tc.cacheDir settles
TaskCacheDirSettles(t) ==
    /\ cpc[t] = "cacheDir"
    /\ IF cplan[t] = "cacheDir"
       THEN /\ TaskRejects(t, "cacheDir")
            /\ UNCHANGED <<ctrace, localCache>>
       ELSE /\ localCache' = localCache \cup {ToolCacheKey(t)}
            /\ ctrace' = [ctrace EXCEPT ![t] = Append(@, "cacheDir")]
            /\ cpc' = [cpc EXCEPT ![t] = "walk"]
            /\ cret' = cret
    /\ UNCHANGED <<cname, cplan, chit, ctmp, cremote0, remoteCache, saving, tmpCount>>

\* tool_setup.ts:317-331,375-392  walk settles, setupToolInternal resolves
\* and the then-handler of setupTool starts the save after a remote miss
TaskThen(t) ==
    /\ cpc[t] = "walk"
    /\ IF TryCache /\ ~chit[t]
       THEN /\ saving' = saving \cup {cname[t]}
            /\ ctrace' = [ctrace EXCEPT ![t] = Append(@, "saveCache")]
       ELSE /\ saving' = saving
            /\ ctrace' = ctrace
    /\ cret' = [cret EXCEPT ![t] = [kind |-> "returned",
                                    value |-> CachedPath(ToolCacheKey(t)[1], VERSION)]]
    /\ cpc' = [cpc EXCEPT ![t] = "done"]
    /\ UNCHANGED <<cname, cplan, chit, ctmp, cremote0, localCache, remoteCache, tmpCount>>

\* ------------------------------------------------------------------------
\* Specifications
\* ------------------------------------------------------------------------
xvars == <<mvars, lvars, nvars, cvars>>

XIdle == MsiIdle /\ LibIdle /\ MainOff /\ ConcIdle

vars == <<rvars, dvars, avars, xvars>>

\* no acquisition is made
AcqOff ==
    /\ platform = "linux"
    /\ arch = "x64"
    /\ useBinarySha256Checksum = FALSE
    /\ useGithubCachingService = FALSE
    /\ isSelfHosted = FALSE
    /\ cacheFeatureAvailable = FALSE
    /\ toolCacheDir = FALSE
    /\ cdn = DefaultCdn
    /\ remoteCache = [n \in ToolNames |-> NoEntry]
    /\ AcqIdle

\* retryWithBackoff not running
RetryIdle ==
    /\ maxAttempts = 3
    /\ initialDelayMs = 1
    /\ backoffMultiplier = 2
    /\ maxDelayMs = 4
    /\ opFailures = 0
    /\ rpc = "idle"
    /\ attempt = 1
    /\ delayMs = 1
    /\ lastError = None
    /\ thrown = <<>>
    /\ opValue = None
    /\ opCalls = 0
    /\ waits = <<>>
    /\ rlog = [debug |-> 0, info |-> 0, warning |-> 0, error |-> 0]
    /\ result = None
    /\ rejection = None

RetryNext ==
    \/ AttemptSucceeds /\ UNCHANGED <<dvars, avars, xvars>>
    \/ AttemptFails /\ UNCHANGED <<dvars, avars, xvars>>
    \/ Sleep /\ UNCHANGED <<dvars, avars, xvars>>
    \/ RetryThrow /\ UNCHANGED <<dvars, avars, xvars>>

InitRetry == RetryInit /\ DmgIdle /\ AcqOff /\ XIdle

SpecRetry == InitRetry /\ [][RetryNext]_vars

DmgNext ==
    \/ ExtractDmgCall /\ UNCHANGED <<rvars, avars, xvars>>
    \/ HdiutilAttachOk /\ UNCHANGED <<rvars, avars, xvars>>
    \/ HdiutilAttachFails /\ UNCHANGED <<rvars, avars, xvars>>
    \/ CallbackResolves /\ UNCHANGED <<rvars, avars, xvars>>
    \/ CallbackRejects /\ UNCHANGED <<rvars, avars, xvars>>
    \/ FinallyDetach /\ UNCHANGED <<rvars, avars, xvars>>
    \/ FinallySkip /\ UNCHANGED <<rvars, avars, xvars>>
    \/ DmgSettle /\ UNCHANGED <<rvars, avars, xvars>>

InitDmg == RetryIdle /\ DmgIdle /\ AcqOff /\ XIdle

SpecDmg == InitDmg /\ [][DmgNext]_vars

\* an acquisition step, which leaves extractDmg where it is unless it enters it
AcqStep(A) == A /\ UNCHANGED <<rvars, dvars, xvars>>
\* a step of extractDmg running for postDownload
DmgStep(A) == dcaller = "postDownload" /\ A /\ UNCHANGED <<rvars, avars, xvars>>

Next ==
    \/ AcqStep(SetupTool)
    \/ AcqStep(RestoreCacheResolves)
    \/ AcqStep(RestoreCacheRejects)
    \/ AcqStep(ResolveDeclared)
    \/ AcqStep(ResolveChecksum)
    \/ AcqStep(ResolveChecksumFails)
    \/ AcqStep(FindHit)
    \/ AcqStep(FindMiss)
    \/ AcqStep(DownloadResolves)
    \/ AcqStep(DownloadRejects)
    \/ AcqStep(ExtractResolves)
    \/ AcqStep(ExtractRejects)
    \/ PostDownloadDmg /\ UNCHANGED <<rvars, xvars>>
    \/ DmgStep(HdiutilAttachOk)
    \/ DmgStep(HdiutilAttachFails)
    \/ DmgStep(CallbackResolves)
    \/ DmgStep(FinallyDetach)
    \/ DmgStep(FinallySkip)
    \/ DmgStep(DmgSettle)
    \/ ExtractDmgSettled /\ UNCHANGED <<rvars, xvars>>
    \/ AcqStep(CacheDirResolves)
    \/ AcqStep(CacheDirRejects)
    \/ AcqStep(ChmodResolves)
    \/ AcqStep(ChmodRejects)
    \/ AcqStep(CreateSymlink)
    \/ AcqStep(WritePKCS11ConfigFile)
    \/ AcqStep(WritePKCS11ConfigFileRejects)
    \/ AcqStep(WalkAndAddPath)
    \/ AcqStep(VersionCheck)
    \/ AcqStep(SetupToolThen)
    \/ AcqStep(SaveCacheResolves)
    \/ AcqStep(SaveCacheRejects)
    \/ AcqStep(SetupLibrariesSettles)

Init == RetryIdle /\ DmgIdle /\ AcqInit /\ XIdle

Spec == Init /\ [][Next]_vars

MsiStep(A) == A /\ UNCHANGED <<rvars, dvars, avars, lvars, nvars, cvars>>

MsiNext ==
    \/ MsiStep(InstallMsiCall)
    \/ MsiStep(UninstallExistingMsi)
    \/ MsiStep(MsiexecInstall)
    \/ MsiStep(InstallThen)
    \/ MsiStep(MsiCallbackResolves)
    \/ MsiStep(MsiCallbackRejects)
    \/ MsiStep(InstallCatch)

InitMsi == RetryIdle /\ DmgIdle /\ AcqOff /\ MsiIdle /\ LibIdle /\ MainOff /\ ConcIdle

SpecMsi == InitMsi /\ [][MsiNext]_vars

LibStep(A) == A /\ UNCHANGED <<rvars, dvars, avars, mvars, nvars, cvars>>

LibNext ==
    \/ LibStep(SetupLibrariesCall)
    \/ LibStep(WriteBatchFile)
    \/ LibStep(KspRegister)
    \/ LibStep(CopyDll)
    \/ LibStep(RunBatchFile)
    \/ LibStep(LibFinally)
    \/ LibStep(LibSettle)

InitLib == RetryIdle /\ DmgIdle /\ AcqOff /\ MsiIdle /\ LibIdle /\ MainOff /\ ConcIdle

SpecLib == InitLib /\ [][LibNext]_vars

MainStep(A) == A /\ UNCHANGED <<rvars, dvars, avars, mvars, lvars, cvars>>

MainNext ==
    \/ MainStep(Main)
    \/ MainStep(MainStartTool)
    \/ \E t \in ToolNames : MainStep(ToolResolves(t))
    \/ \E t \in ToolNames : MainStep(ToolRejects(t))
    \/ MainStep(PromiseAllFulfils)
    \/ MainStep(PromiseAllRejects)
    \/ MainStep(AwaitOneFulfils)
    \/ MainStep(AwaitOneRejects)
    \/ MainStep(SimplifiedSign)

InitMain == RetryIdle /\ DmgIdle /\ AcqOff /\ MsiIdle /\ LibIdle /\ MainInit /\ ConcIdle

SpecMain == InitMain /\ [][MainNext]_vars

\* a step of one of the concurrent calls: it touches the shared caches and
\* the temporary directories, nothing of a sequential acquisition
ConcStep(A) ==
    A /\ UNCHANGED <<rvars, dvars, mvars, lvars, nvars, envvars, callvars, apc, toolPath,
                     downloadedPath, outputDir, atrace, aret, acqs, prev, libSetup, envPath,
                     rv, files, outputs>>

ConcNext ==
    \/ \E t \in Tasks : ConcStep(CallSetupTool(t))
    \/ \E t \in Tasks : ConcStep(TaskRestoreSettles(t))
    \/ \E t \in Tasks : ConcStep(TaskDownloadSettles(t))
    \/ \E t \in Tasks : ConcStep(TaskPostDownloadSettles(t))
    \/ \E t \in Tasks : ConcStep(TaskCacheDirSettles(t))
    \/ \E t \in Tasks : ConcStep(TaskThen(t))
    \/ AcqStep(SaveCacheResolves)
    \/ AcqStep(SaveCacheRejects)

InitConc == RetryIdle /\ DmgIdle /\ MsiIdle /\ LibIdle /\ MainOff /\ ConcInit

SpecConc == InitConc /\ [][ConcNext]_vars

\* ------------------------------------------------------------------------
\* Properties of the retry executor
\* ------------------------------------------------------------------------
RetryFinished == rpc \in {"returned", "rejected"}

\* C1: an operation that fails on its first k < maxAttempts invocations and
\* succeeds on invocation k+1 is invoked exactly k+1 times and the retry call
\* resolves with the value of that invocation.
C1_SucceedsAfterKFailures ==
    (RetryFinished /\ opFailures < maxAttempts) =>
        /\ rpc = "returned"
        /\ opCalls = opFailures + 1
        /\ Len(thrown) = opFailures
        /\ opValue \in OpValues
        /\ result = opValue

C1_Witness ==
    rpc = "returned" /\ opFailures = 2 /\ maxAttempts = 3 /\ opCalls = 3

\* C2: an operation that fails on every invocation is invoked exactly
\* maxAttempts times and the retry call rejects with the last error the
\* operation threw: the same Error object when it threw an Error, an Error
\* carrying the stringified value when it threw something else.
C2_ExhaustedRejectsWithLastError ==
    (RetryFinished /\ opFailures >= maxAttempts) =>
        /\ rpc = "rejected"
        /\ opCalls = maxAttempts
        /\ Len(thrown) = maxAttempts
        /\ maxAttempts >= 1 =>
              LET t == thrown[Len(thrown)] IN
                /\ t.kind = "Error" => rejection = t
                /\ t.kind # "Error" =>
                      rejection.kind = "Error" /\ rejection.message = t.value

C2_Witness ==
    /\ rpc = "rejected" /\ maxAttempts = 3 /\ opCalls = 3
    /\ thrown[3].kind = "Error" /\ rejection = thrown[3]
    /\ thrown[2] # thrown[3]

\* C3 (as claimed): the delays waited are non-decreasing and the delay waited
\* after failed attempt n is min(initialDelayMs * backoffMultiplier^(n-1), maxDelayMs).
C3_DelaysFollowCappedFormula ==
    /\ \A n \in 1..Len(waits) :
          waits[n] = Min(initialDelayMs * Pow(backoffMultiplier, n - 1), maxDelayMs)
    /\ \A n \in 1..(Len(waits) - 1) : waits[n] <= waits[n + 1]

\* ------------------------------------------------------------------------
\* Properties of the DMG extraction
\* ------------------------------------------------------------------------
\* C9: unmount is attempted exactly once for each successful mount, whether
\* the callback returns or throws; when the mount fails, unmount is never
\* attempted and the callback is never invoked.
C9_UnmountOncePerMount ==
    /\ CountOf(dtrace, "detach") <= CountOf(dtrace, "attach-ok")
    /\ detachAttempts <= mountsOk
    /\ CountOf(dtrace, "attach-failed") = 1 =>
          /\ CountOf(dtrace, "detach") = 0
          /\ CountOf(dtrace, "callback-resolved") = 0
          /\ CountOf(dtrace, "callback-rejected") = 0
    /\ dpc = "done" =>
          /\ detachAttempts = mountsOk
          /\ CountOf(dtrace, "detach") = CountOf(dtrace, "attach-ok")

C9_Witness ==
    /\ dpc = "done" /\ dcalls = 2
    /\ mountsOk = 1 /\ detachAttempts = 1
    /\ dtrace = <<"attach-ok", "callback-rejected", "detach", "rejected">>

\* C10: when the callback throws, extractDmg rejects with the callback's
\* exception, and only after the unmount of the volume has been attempted.
C10_CallbackErrorAfterUnmount ==
    (dpc = "done" /\ CountOf(dtrace, "callback-rejected") = 1) =>
        /\ dret.kind = "rejected"
        /\ dret.error \in CallbackErrors
        /\ dret.error = inflight
        /\ CountOf(dtrace, "detach") = 1
        /\ IndexOf(dtrace, "callback-rejected") < IndexOf(dtrace, "detach")
        /\ IndexOf(dtrace, "detach") < IndexOf(dtrace, "rejected")

C10_Witness ==
    /\ dpc = "done"
    /\ dtrace = <<"attach-ok", "callback-rejected", "detach", "rejected">>
    /\ dret = [kind |-> "rejected", error |-> [kind |-> "Error", message |-> "Processing error", by |-> "callback"]]
    /\ volume \in osMounted

\* ------------------------------------------------------------------------
\* Properties of the acquisition pipeline
\* ------------------------------------------------------------------------
Did(e) == CountOf(atrace, e)

\* this acquisition and the one before it both returned an installed path
AcquiredTwice ==
    /\ apc = "done" /\ aret.kind = "returned"
    /\ prev.kind = "returned" /\ prev.name = name

\* C4 (as claimed): a tool acquired twice in sequence, the first acquisition
\* finding nothing in the local cache, performs exactly one tool download, the
\* second acquisition being a local-cache hit.
C4_ExactlyOneDownload ==
    (AcquiredTwice /\ ~prev.localHit) =>
        /\ Did("find-hit") = 1
        /\ prev.downloads + Did("download") = 1

\* C4 (amended): when both acquisitions resolve the same version, the second
\* one is a local-cache hit and downloads nothing, and the two together
\* download at most once: exactly once when the first missed the local cache.
C4_SameVersionSecondHits ==
    (AcquiredTwice /\ prev.version = version) =>
        /\ Did("find-hit") = 1
        /\ Did("download") = 0
        /\ prev.downloads = (IF prev.localHit THEN 0 ELSE 1)

C4_Witness ==
    /\ AcquiredTwice /\ prev.version = version
    /\ useBinarySha256Checksum /\ version # VERSION
    /\ prev.downloads = 1 /\ Did("find-hit") = 1 /\ Did("download") = 0

FatalStageErrors ==
    {Err("Unable to reach CDN", "downloadTool"), Err("Invalid URL", "downloadTool"), MountError}
    \cup {Err("Extraction failed", k) : k \in {"FILE", "MSI", "ZIP", "TAR"}}

\* C5: when the tool download or the extraction fails, the acquisition
\* rejects with that error and no later stage runs: no store into the local
\* cache, no remote-cache save, no PATH change.
C5_FatalStageStopsPipeline ==
    (Did("download-failed") + Did("extract-failed") >= 1) =>
        /\ apc = "done"
        /\ aret.kind = "rejected"
        /\ aret.error \in FatalStageErrors
        /\ Did("download-failed") = 1 => aret.error.by = "downloadTool"
        /\ Did("extract-failed") = 1 => aret.error.by # "downloadTool"
        /\ Did("cacheDir") = 0 /\ Did("saveCache") = 0 /\ Did("addPath") = 0
        /\ Did("chmod") = 0 /\ Did("walk") = 0 /\ Did("cacheHitSetup") = 0
        /\ toolPath = <<>>
        /\ <<tm.name, version>> \notin localCache

C5_Witness ==
    /\ apc = "done" /\ aret.kind = "rejected"
    /\ Did("extract-failed") = 1 /\ Did("restore-miss") = 1
    /\ aret.error = MountError

\* C6: version resolution never aborts an acquisition: when the checksum
\* file cannot be obtained the resolved version is the declared cache-version
\* and the acquisition goes on to the local-cache lookup.
C6_ChecksumFailureFallsBack ==
    Did("checksum-failed") >= 1 =>
        /\ version = VERSION
        /\ Did("version") = 1
        /\ apc # "resolve"
        /\ apc = "find" \/ Did("find-hit") + Did("find-miss") = 1

C6_Witness ==
    /\ Did("checksum-failed") = 1 /\ version = VERSION
    /\ apc = "done" /\ aret.kind = "returned" /\ Did("download") = 1

\* the first whitespace-delimited token of a text
FirstWhitespaceToken(str) ==
    LET RECURSIVE Token(_)
        Token(t) == IF t = <<>> \/ Head(t) \in Whitespace THEN <<>>
                    ELSE <<Head(t)>> \o Token(Tail(t))
    IN Token(TrimStart(str))

\* C7 (as claimed): with checksum versioning the resolved version is "0.0.0-"
\* followed by the first whitespace-delimited token of the checksum file;
\* without it the version is the declared one and no checksum file is requested.
C7_VersionFromFirstToken ==
    Did("version") = 1 =>
        /\ (useBinarySha256Checksum /\ Did("checksum-failed") = 0) =>
              /\ Did("checksum-fetch") = 1
              /\ version = <<"0.0.0-">> \o FirstWhitespaceToken(content)
        /\ ~useBinarySha256Checksum =>
              version = VERSION /\ Did("checksum-fetch") = 0

\* utils.ts:110  default maxAttempts of the retry executor
DefaultMaxAttempts == 3

\* C8 (as claimed): every network call goes through the retry executor, so a
\* call is only given up, failing or degrading the acquisition, after it has
\* been attempted maxAttempts times.
C8_NetworkCallsRetried ==
    /\ Did("download-failed") >= 1 => Did("download") >= DefaultMaxAttempts
    /\ Did("checksum-failed") >= 1 => Did("checksum-fetch") >= DefaultMaxAttempts
    /\ Did("restore-failed") >= 1 => Did("restore") >= DefaultMaxAttempts

\* ------------------------------------------------------------------------
\* Properties of the MSI installation
\* ------------------------------------------------------------------------
\* C11 (as claimed): when the installer exits with a non-zero code, installMsi
\* rejects with an error whose message contains the installer-log content, or
\* the raw OS error when the log cannot be read, and the callback is never
\* invoked.
C11_NonZeroExitEmbedsLog ==
    (mpc = "done" /\ mexit # 0) =>
        /\ mret.kind = "rejected"
        /\ CountOf(mtrace, "callback") = 0
        /\ IF mlog THEN Contains(mret.error.message, LogContent)
           ELSE \/ Contains(mret.error.message, LogReadError.message)
                \/ Contains(mret.error.message, ExecError("1603").message)

\* C12: the uninstall is attempted before the install, and after every
\* outcome of the uninstall (exit 0, 1605, another code, a thrown exception)
\* the install step still runs.
C12_UninstallThenInstall ==
    /\ CountOf(mtrace, "install") <= CountOf(mtrace, "uninstall")
    /\ CountOf(mtrace, "install") = 1 =>
          IndexOf(mtrace, "uninstall") < IndexOf(mtrace, "install")
    /\ mpc = "install" => muninstall \in UninstallOutcomes
    /\ mpc \in {"then", "catch", "callback", "done"} =>
          /\ muninstall \in UninstallOutcomes
          /\ CountOf(mtrace, "uninstall") = 1
          /\ CountOf(mtrace, "install") = 1

C12_Witness ==
    /\ mpc = "done"
    /\ muninstall.settle = "rejected"
    /\ mtrace = <<"uninstall", "install", "callback">>
    /\ mret.kind = "returned"

\* ------------------------------------------------------------------------
\* Properties of the remote cache
\* ------------------------------------------------------------------------
\* C13: when the remote-cache option is off or the machine is self-hosted,
\* neither the remote restore nor the remote save is ever called.
C13_RemoteCacheOnlyWhenEnabled ==
    (isSelfHosted \/ ~useGithubCachingService) =>
        /\ Did("restore") = 0
        /\ Did("saveCache") = 0
        /\ saving = {}
        /\ cacheHit = Undefined
        /\ apc # "restore"

C13_Witness ==
    /\ isSelfHosted /\ useGithubCachingService /\ cacheFeatureAvailable /\ toolCacheDir
    /\ apc = "done" /\ aret.kind = "returned"
    /\ Did("download") = 1 /\ Did("restore") = 0 /\ Did("saveCache") = 0

\* the save issued by this acquisition was rejected: it is no longer pending
\* and nothing is stored under the key
SaveFailed ==
    /\ Did("saveCache") = 1
    /\ name \notin saving
    /\ ~remoteCache[name].present

\* C14: a failed remote restore is treated as a miss and the pipeline goes
\* on; a failed remote save leaves the returned installed path as it was; no
\* acquisition is rejected with an error of the remote cache.
C14_RemoteCacheFailuresNotFatal ==
    /\ Did("restore-failed") = 1 =>
          /\ cacheHit = Undefined
          /\ apc # "restore"
          /\ apc = "resolve" \/ Did("version") = 1
    /\ SaveFailed =>
          /\ apc = "done"
          /\ aret = [kind |-> "returned", value |-> rv]
          /\ rv # <<>>
    /\ aret.kind = "rejected" => aret.error.by \notin {"restoreCache", "saveCache"}

C14_Witness ==
    /\ Did("restore-failed") = 1
    /\ SaveFailed
    /\ apc = "done" /\ aret.kind = "returned" /\ Did("download") = 1

\* ------------------------------------------------------------------------
\* Properties of the Windows CSP/KSP registration
\* ------------------------------------------------------------------------
\* C16 (as claimed): once the temporary directory has been created, it and
\* the batch script in it are deleted on every exit path.
C16_TempDirDeleted ==
    (lpc = "done" /\ CountOf(ltrace, "mkdir") = 1) =>
        /\ ltmp \notin ldirs
        /\ ltmp \notin lscripts

\* C16 (amended): once the temporary directory has been created, its removal
\* is attempted exactly once on every exit path, after the last step of the
\* try block; the directory and the script are gone unless that removal
\* itself fails, in which case setupLibraries still settles as the try block did.
C16_TempDirRemovalAttempted ==
    /\ (lpc \in {"settle", "done"} /\ CountOf(ltrace, "mkdir") = 1) =>
          /\ CountOf(ltrace, "rm") = 1
          /\ CountOf(ltrace, "rm-failed") = 0 => (ltmp \notin ldirs /\ ltmp \notin lscripts)
          /\ \A step \in {"write-failed", "ksp-failed", "copy-failed", "batch-failed", "batch"} :
                CountOf(ltrace, step) = 1 => IndexOf(ltrace, step) < IndexOf(ltrace, "rm")
    /\ (lpc = "done" /\ CountOf(ltrace, "mkdir") = 1) =>
          lret.kind = (IF lerror = None THEN "returned" ELSE "rejected")

C16_Witness ==
    /\ lpc = "done"
    /\ ltrace = <<"mkdir", "write", "ksp", "copy-failed", "rm">>
    /\ lret.kind = "rejected"
    /\ ltmp \notin ldirs /\ ltmp \notin lscripts

\* C15 (as claimed): a failure of the registry-script execution during an
\* acquisition is fatal: the acquisition rejects instead of returning an
\* installed path.
C15_RegistryFailureFatal ==
    (Did("cacheHitSetup") = 1 /\ libSetup = "failed") =>
        /\ apc = "done"
        /\ aret.kind = "rejected"

\* ------------------------------------------------------------------------
\* Properties of the entry point
\* ------------------------------------------------------------------------
OnMac == ~isSimpleSigning /\ mainPlatform = "darwin"

MacToolSet == {MacTools[i] : i \in 1..Len(MacTools)}

\* C17: on macOS outside simple-signing mode the acquisitions of all four
\* tools are started before any of them has completed, and main completes
\* successfully only after all four have resolved.
C17_MacToolsStartedTogether ==
    OnMac =>
        /\ (\E t \in ToolNames : tools[t] \in {"resolved", "rejected"}) =>
              /\ \A u \in MacToolSet : tools[u] # "idle"
              /\ \A u, t \in MacToolSet : \A how \in {"resolved", "rejected"} :
                    CountOf(ntrace, <<how, t>>) = 1 =>
                        IndexOf(ntrace, <<"start", u>>) < IndexOf(ntrace, <<how, t>>)
        /\ nret.kind = "returned" =>
              /\ \A t \in MacToolSet : tools[t] = "resolved"
              /\ \A t \in MacToolSet :
                    IndexOf(ntrace, <<"resolved", t>>) < IndexOf(ntrace, <<"main", "returned">>)
        /\ \A t \in ToolNames \ MacToolSet : tools[t] = "idle"

C17_Witness ==
    /\ OnMac /\ npc = "done" /\ nret.kind = "returned"
    /\ ntrace = <<<<"start", SMCTL>>, <<"start", SMCTK>>, <<"start", SMPKCS11>>, <<"start", SCD>>,
                  <<"resolved", SCD>>, <<"resolved", SMCTK>>, <<"resolved", SMCTL>>,
                  <<"resolved", SMPKCS11>>, <<"main", "returned">>>>

\* C18: when one of the concurrent macOS acquisitions rejects, main fails
\* with the first rejection without waiting for the others, which are not
\* cancelled (they can still settle) and whose results change nothing.
C18_FailFastOnFirstRejection ==
    OnMac =>
        /\ (npc = "awaitAll" /\ Rejected # {}) => ENABLED MainStep(PromiseAllRejects)
        /\ nret.kind = "rejected" =>
              /\ Rejected # {}
              /\ nret.error = ToolError(FirstRejected)
              /\ failed = nret.error
              /\ IndexOf(ntrace, <<"rejected", FirstRejected>>) < IndexOf(ntrace, <<"main", "setFailed">>)
              /\ CountOf(ntrace, <<"main", "setFailed">>) = 1
              /\ \A t \in MacToolSet :
                    tools[t] = "pending" =>
                        ENABLED MainStep(ToolResolves(t)) /\ ENABLED MainStep(ToolRejects(t))

C18_Witness ==
    /\ OnMac /\ npc = "done" /\ failed = ToolError(SMCTK)
    /\ ntrace = <<<<"start", SMCTL>>, <<"start", SMCTK>>, <<"start", SMPKCS11>>, <<"start", SCD>>,
                  <<"rejected", SMCTK>>, <<"main", "setFailed">>,
                  <<"resolved", SMCTL>>, <<"rejected", SCD>>>>
    /\ tools[SMPKCS11] = "pending"

\* ------------------------------------------------------------------------
\* Properties of the acquisition pipeline, continued
\* ------------------------------------------------------------------------
\* the requested tool has no catalog entry for this platform and architecture
Unsupported == qulifiedToolName(name, platform, arch) \notin CatalogKeys

\* C19: for a combination that is not in the catalog the acquisition returns
\* undefined without throwing and makes no remote-cache call, no download, no
\* local-cache operation and no PATH change.
C19_UnsupportedReturnsUndefined ==
    (acqs >= 1 /\ Unsupported) =>
        /\ apc = "done"
        /\ aret = Undefined
        /\ atrace = <<"warn-not-supported">>
        /\ localCache = {}
        /\ saving = {}
        /\ envPath = {}
        /\ toolPath = <<>> /\ downloadedPath = <<>>

C19_Witness ==
    /\ acqs = 2 /\ apc = "done" /\ aret = Undefined
    /\ name = SMTOOLS /\ platform = "darwin"
    /\ useGithubCachingService /\ ~isSelfHosted /\ cacheFeatureAvailable /\ toolCacheDir

\* hdiutil detach failed for the volume this acquisition extracted from: the
\* volume is still mounted
UnmountFailed ==
    /\ tm # None
    /\ tm.archiveType = "DMG"
    /\ Did("extract") = 1
    /\ outputDir \in osMounted

\* C20: a symlink failure, a DMG unmount failure and a version-check failure
\* never interrupt the pipeline: the next stage runs, no acquisition is
\* rejected with such an error, and an acquisition in which no other stage
\* fails returns the installed path.
C20_RecoveredErrorsDoNotInterrupt ==
    /\ Did("symlink-failed") = 1 =>
          /\ apc \in {"pkcs11", "walk", "versionCheck", "then", "done"}
          /\ apc = "done" => aret = [kind |-> "returned", value |-> rv]
    /\ Did("versionCheck-failed") = 1 =>
          /\ apc \in {"then", "done"}
          /\ apc = "done" => aret = [kind |-> "returned", value |-> rv]
    /\ UnmountFailed =>
          /\ apc \notin {"postDownload", "extractDmg"}
          /\ apc = "cacheDir" \/ Did("cacheDir") + Did("cacheDir-failed") = 1
          /\ (apc = "done" /\ Did("cacheDir") = 1 /\ ~tm.needPKCS11Config) =>
                aret = [kind |-> "returned", value |-> rv]
    /\ aret.kind = "rejected" =>
          /\ aret.error # UnmountError
          /\ aret.error.by \notin {"createSymlink", "hdiutil detach", "versionCheck"}

C20_Witness ==
    /\ apc = "done" /\ aret = [kind |-> "returned", value |-> rv] /\ rv # <<>>
    /\ name = SMCTL /\ UnmountFailed
    /\ Did("symlink-failed") = 1 /\ Did("versionCheck-failed") = 1

\* C21: a failure while storing the extracted tool into the local tool cache
\* makes the acquisition reject with that error; nothing is stored and no
\* later stage runs.
C21_CacheDirFailureRejects ==
    Did("cacheDir-failed") = 1 =>
        /\ apc = "done"
        /\ aret.kind = "rejected"
        /\ aret.error \in CacheDirErrors \cup {SourceMissing}
        /\ Did("cacheDir") = 0
        /\ <<tm.name, version>> \notin localCache
        /\ toolPath = <<>>
        /\ Did("chmod") = 0 /\ Did("walk") = 0 /\ Did("addPath") = 0 /\ Did("saveCache") = 0

C21_Witness ==
    /\ apc = "done" /\ Did("cacheDir-failed") = 1 /\ Did("extract") = 1
    /\ aret = [kind |-> "rejected", error |-> Err("ENOSPC: no space left on device", "cacheDir")]
    /\ platform = "linux" /\ name = SMTOOLS

\* the first acquisition of smctl on linux/x64 with checksum versioning off,
\* nothing in the local cache and nothing restored from the remote cache
SmctlLinuxScenario ==
    /\ name = SMCTL /\ platform = "linux" /\ arch = "x64"
    /\ ~useBinarySha256Checksum
    /\ acqs = 1
    /\ Did("restore-hit") = 0

\* C22: in that scenario the acquisition downloads {base}/smctl, stores it in
\* the local cache under (smctl, 1.0.0), marks it executable and returns a
\* path ending in /smctl.
C22_SmctlLinuxEndToEnd ==
    (SmctlLinuxScenario /\ apc = "done" /\ aret.kind = "returned") =>
        /\ version = <<"1.0.0">>
        /\ Did("checksum-fetch") = 0
        /\ Did("find-miss") = 1
        /\ Did("download") = 1
        /\ downloadedPath = <<"download", <<cdn, "/", "smctl">>>>
        /\ Did("cacheDir") = 1
        /\ <<SMCTL, <<"1.0.0">>>> \in localCache
        /\ toolPath = CachedPath(SMCTL, <<"1.0.0">>)
        /\ Did("chmod") = 1
        /\ toolPath \in files.executable
        /\ IndexOf(atrace, "download") < IndexOf(atrace, "cacheDir")
        /\ IndexOf(atrace, "cacheDir") < IndexOf(atrace, "chmod")
        /\ aret.value = toolPath \o <<"smctl">>
        /\ aret.value[Len(aret.value)] = "smctl"

C22_Witness ==
    /\ SmctlLinuxScenario /\ apc = "done" /\ aret.kind = "returned"
    /\ aret.value = <<"toolcache", "smctl", <<"1.0.0">>, "smctl">>
    /\ localCache = {<<SMCTL, <<"1.0.0">>>>}

\* the packaging of each tool on each platform the catalog serves
Packaging(n, os, a) ==
    CASE n = SMCTL /\ os \in {"win32", "linux"} /\ a = "x64" -> "FILE"
      [] n \in {SMCTL, SMPKCS11, SCD} /\ os = "darwin" /\ a \in {"x64", "arm64"} -> "DMG"
      [] n = SMCTK /\ os = "darwin" /\ a \in {"x64", "arm64"} -> "ZIP"
      [] n = SMTOOLS /\ os = "win32" /\ a = "x64" -> "MSI"
      [] n = SMTOOLS /\ os = "linux" /\ a = "x64" -> "TAR"
      [] OTHER -> "absent"

\* C23: the metadata setupTool looks up under name-os-arch has, for every
\* combination the catalog holds, the archive kind of the tool's packaging:
\* smctl on win32 and linux is a plain file, smctl, smpkcs11 and ssm-scd on
\* darwin are DMG, smctk on darwin is ZIP, smtools is MSI on win32 and TAR on
\* linux; and the catalog holds exactly these combinations.
C23_CatalogArchiveKinds ==
    acqs >= 1 =>
        /\ tm = CatalogGet(qulifiedToolName(name, platform, arch))
        /\ (tm = None) <=> (Packaging(name, platform, arch) = "absent")
        /\ tm # None =>
            /\ tm.archiveType = Packaging(name, platform, arch)
            /\ tm.archived <=> (tm.archiveType # "FILE")

C23_Witness ==
    /\ acqs >= 1 /\ name = SMCTK /\ platform = "darwin" /\ arch = "arm64"
    /\ tm.archiveType = "ZIP" /\ Did("extract") = 1

\* a digicert-cdn base that does not use HTTPS
InvalidCdn == cdn[1] # "https:"

\* C24: with a digicert-cdn base that does not use HTTPS the acquisition of
\* a supported tool rejects with the "Invalid digicert-cdn URL ... must use
\* HTTPS protocol" error. The formula asks only that the acquisition does
\* not return a tool path, whatever the message of the rejection.
C24_NonHttpsCdnRejects ==
    (InvalidCdn /\ apc = "done" /\ tm # None) => aret.kind = "rejected"

\* C25: writePKCS11ConfigFile writes the config file only when none exists
\* at the config path; an existing config file is left as it is.
C25_ConfigWrittenOnlyIfAbsent ==
    [][(apc = "pkcs11" /\ apc' = "walk") =>
            IF toolPath \in files.cfg
            THEN files' = files
            ELSE /\ files'.cfg = files.cfg \cup {toolPath}
                 /\ files'.cfgWrites = files.cfgWrites + 1]_vars

C25_Witness ==
    /\ acqs = 2 /\ apc = "done" /\ aret.kind = "returned"
    /\ Did("find-hit") = 1 /\ Did("pkcs11-kept") = 1
    /\ toolPath \in files.cfg /\ files.cfgWrites = 1

\* the value writePKCS11ConfigFile has to publish for the tool directory
ExpectedConfigOutput ==
    IF platform = "win32"
    THEN <<toolPath[1], "\\", "\\", toolPath[2], "\\", "\\", toolPath[3], "\\", "\\",
           "pkc11Properties.cfg">>
    ELSE <<toolPath[1], "/", toolPath[2], "/", toolPath[3], "/", "pkc11Properties.cfg">>

\* C26: every returned acquisition of a tool that needs a PKCS#11 config,
\* on a local-cache hit as on a miss, has run the config step once and has
\* published the path of the config file as PKCS11_CONFIG, with doubled
\* backslashes on Windows; for a tool that does not need the config the
\* output is never set.
C26_ConfigOutputPublished ==
    (acqs >= 1 /\ tm # None) =>
        IF tm.needPKCS11Config
        THEN (apc = "done" /\ aret.kind = "returned") =>
                /\ Did("pkcs11-kept") + Did("pkcs11-written") = 1
                /\ outputs.PKCS11_CONFIG = ExpectedConfigOutput
        ELSE /\ outputs.PKCS11_CONFIG = None
             /\ Did("pkcs11-kept") + Did("pkcs11-written") = 0

C26_Witness ==
    /\ apc = "done" /\ aret.kind = "returned" /\ Did("find-hit") = 1
    /\ name = SMTOOLS /\ platform = "win32"
    /\ outputs.PKCS11_CONFIG =
          <<"toolcache", "\\", "\\", smtoolsWindowsBundle, "\\", "\\", <<"1.0.0">>,
            "\\", "\\", "pkc11Properties.cfg">>

\* positions of the events of the running acquisition
FirstPos(e) == CHOOSE i \in 1..Len(atrace) : atrace[i] = e /\ \A j \in 1..(i - 1) : atrace[j] # e
LastPos(e) == CHOOSE i \in 1..Len(atrace) : atrace[i] = e /\ \A j \in (i + 1)..Len(atrace) : atrace[j] # e
Before(a, b) == (Did(a) >= 1 /\ Did(b) >= 1) => LastPos(a) < FirstPos(b)

\* every event of an earlier stage lies before every event of a later stage
InOrder(stages) ==
    \A i, j \in 1..Len(stages) : i < j => \A a \in stages[i], b \in stages[j] : Before(a, b)

ChmodEvents == {"chmod", "chmod-failed"}
SymlinkEvents == {"symlink", "symlink-failed"}
ConfigEvents == {"pkcs11-written", "pkcs11-kept", "pkcs11-failed"}
SideEffectEvents == ChmodEvents \cup SymlinkEvents \cup ConfigEvents

C28_VersionBeforeCacheLookups ==
    \A lookup \in {"restore", "find-hit", "find-miss"} :
        Did(lookup) >= 1 => Did("version") = 1 /\ LastPos("version") < FirstPos(lookup)

\* C29: once the extraction dispatcher has been left, by a normal return or
\* by a failure, the temporary directory or the mount it created is gone,
\* for every archive kind.
C29_ExtractionLocationReleased ==
    (Did("extract") + Did("extract-failed") >= 1) =>
        /\ ExistingTmpDirs = {}
        /\ osMounted = {}

\* C30: when the orchestrator stores the extraction output into the local
\* cache the output is still there: the temporary directory exists and, for
\* a DMG, the volume is still mounted.
C30_StoreSourceAvailable ==
    apc = "cacheDir" =>
        IF tm.archiveType = "DMG" THEN outputDir \in osMounted
        ELSE outputDir \in ExistingTmpDirs

\* the one catalog entry with a cacheHitSetup hook (tool_setup.ts:165-176)
HasHook == name = SMTOOLS /\ platform = "win32" /\ arch = "x64"

\* C31: the cache-hit setup hook runs exactly once in an acquisition whose
\* remote-cache restore reported a hit, after the installed path has been
\* determined, and never when the restore missed, failed or was not
\* attempted, nor for a tool without the hook.
C31_HookOncePerRemoteHit ==
    acqs >= 1 =>
        /\ Did("cacheHitSetup") <= 1
        /\ Did("cacheHitSetup") = 1 =>
              /\ HasHook /\ Did("restore-hit") = 1
              /\ rv # <<>> /\ aret = [kind |-> "returned", value |-> rv]
              /\ Before("walk", "cacheHitSetup")
        /\ (HasHook /\ Did("restore-hit") = 1 /\ apc = "done" /\ aret.kind = "returned") =>
              Did("cacheHitSetup") = 1

C31_Witness ==
    /\ HasHook /\ apc = "done" /\ aret.kind = "returned"
    /\ Did("restore-hit") = 1 /\ Did("cacheHitSetup") = 1 /\ libSetup = "running"

\* C32: an acquisition does not return the installed path before the
\* cache-hit setup hook it triggered has run to completion.
C32_ReturnsAfterHookCompleted ==
    (apc = "done" /\ aret.kind = "returned" /\ Did("cacheHitSetup") = 1) =>
        libSetup \in {"done", "failed"}

\* C33: when tc.find has an entry for (tool, resolved version) the lookup
\* hits and the acquisition goes on without a tool download, an extraction
\* or installation, or a store into the local cache.
C33_LocalHitShortCircuits ==
    [][/\ (apc = "find" /\ apc' # "find" /\ <<tm.name, version>> \in localCache) =>
            /\ atrace' = Append(atrace, "find-hit")
            /\ toolPath' = CachedPath(tm.name, version)
            /\ apc' \in {"symlink", "pkcs11", "walk"}
       /\ (Did("find-hit") = 1 /\ acqs' = acqs) =>
            /\ localCache' = localCache /\ tmpCount' = tmpCount
            /\ downloadedPath' = <<>> /\ outputDir' = <<>>
            /\ \A e \in {"find-miss", "download", "extract", "extract-failed", "cacheDir",
                          "cacheDir-failed", "chmod"} : CountOf(atrace', e) = 0]_vars

C33_Witness ==
    /\ apc = "done" /\ aret.kind = "returned" /\ Did("find-hit") = 1
    /\ acqs = 2 /\ prev.downloads = 1 /\ Did("download") = 0 /\ name = SMCTK

\* C34: after a remote-cache restore that reported a hit, the local-cache
\* lookup for the resolved version hits and the tool is not downloaded.
C34_RemoteHitImpliesLocalHit ==
    Did("restore-hit") = 1 =>
        /\ Did("find-miss") = 0
        /\ Did("download") = 0

\* C36: the acquisition issues a remote-cache save if and only if the remote
\* cache was attempted, the restore did not report a hit (it missed or it
\* failed) and the local setup succeeded; whether the local lookup hit or a
\* download took place does not matter.
C36_SaveIffAttemptedAndNoRemoteHit ==
    (acqs >= 1 /\ apc = "done" /\ tm # None) =>
        /\ Did("saveCache") <= 1
        /\ Did("saveCache") = 1 <=>
              /\ Did("restore") = 1
              /\ Did("restore-hit") = 0
              /\ aret.kind = "returned"
        /\ Did("restore") = 1 <=>
              (~isSelfHosted /\ cacheFeatureAvailable /\ useGithubCachingService /\ toolCacheDir)
        /\ Did("saveCache") = 1 => Before("walk", "saveCache")

C36_Witness ==
    /\ apc = "done" /\ aret.kind = "returned" /\ Did("saveCache") = 1
    /\ Did("restore-failed") = 1 /\ Did("find-hit") = 1 /\ Did("download") = 0

\* C35: an exception thrown by the post-extract callback reaches the caller
\* of the extraction as that same error, for every archive kind; stated
\* here for the MSI kind, where installMsi is the extraction.
C35_CallbackErrorPropagatesUnchanged ==
    (mpc = "done" /\ mcallback = "rejects" /\ CountOf(mtrace, "callback") = 1) =>
        mret = [kind |-> "rejected", error |-> MsiCallbackError]

\* C37: retryWithBackoff waits exactly once between two consecutive
\* attempts: never before the first attempt, once after each failed attempt
\* that is not the last, and not after a successful attempt or after the
\* final failed attempt.
C37_OneWaitBetweenAttempts ==
    /\ opCalls = 0 => waits = <<>>
    /\ rpc = "sleep" => opCalls >= 1 /\ attempt < maxAttempts /\ Len(waits) = opCalls - 1
    /\ (rpc = "loop" /\ attempt <= maxAttempts) => Len(waits) = opCalls /\ opCalls = attempt - 1
    /\ rpc = "returned" => Len(waits) = opCalls - 1 /\ Len(thrown) = Len(waits)
    /\ (rpc = "rejected" \/ (rpc = "loop" /\ attempt > maxAttempts)) =>
          /\ opCalls = maxAttempts
          /\ Len(waits) = (IF opCalls = 0 THEN 0 ELSE opCalls - 1)

C37_Witness ==
    /\ rpc = "rejected" /\ maxAttempts = 3 /\ opCalls = 3 /\ Len(waits) = 2

\* ------------------------------------------------------------------------
\* Properties of concurrent acquisitions
\* ------------------------------------------------------------------------
DistinctTools == \A t, u \in Tasks : t # u => cname[t] # cname[u]

\* what the call of task t does when it runs with no other call in flight
AloneHit(t) == TryCache /\ cplan[t] # "restore" /\ cremote0[cname[t]].present
AloneResult(t) ==
    IF ~AloneHit(t) /\ cplan[t] \in {"download", "extract", "cacheDir"}
    THEN [kind |-> "rejected",
          error |-> Err("failed", CASE cplan[t] = "download" -> "downloadTool"
                                    [] cplan[t] = "extract" -> "postDownload"
                                    [] OTHER -> "cacheDir")]
    ELSE [kind |-> "returned",
          value |-> CachedPath(CatalogGet(qulifiedToolName(cname[t], platform, arch)).name,
                               VERSION)]

\* C38: concurrent acquisitions of distinct tools use pairwise distinct
\* temporary directories, local-cache keys and remote-cache keys, and each
\* of them settles, downloads and stores as it would with no other
\* acquisition in flight, whatever the interleaving.
C38_DistinctToolsDoNotInterfere ==
    DistinctTools =>
        /\ \A t, u \in Tasks : t # u =>
              /\ ToolCacheKey(t) # ToolCacheKey(u)
              /\ CacheKey(cname[t]) # CacheKey(cname[u])
              /\ ctmp[t] # <<>> => ctmp[t] # ctmp[u]
        /\ \A t \in Tasks : cpc[t] = "done" =>
              /\ cret[t] = AloneResult(t)
              /\ CountOf(ctrace[t], "find-hit") = (IF AloneHit(t) THEN 1 ELSE 0)
              /\ CountOf(ctrace[t], "download") = (IF AloneHit(t) THEN 0 ELSE 1)
              /\ CountOf(ctrace[t], "cacheDir") =
                    (IF ~AloneHit(t) /\ cret[t].kind = "returned" THEN 1 ELSE 0)

C38_Witness ==
    /\ DistinctTools /\ \A t \in Tasks : cpc[t] = "done" /\ cret[t].kind = "returned"
    /\ ctmp[1] = RandomVolume(2) /\ ctmp[2] = <<"tmp", "D_", 1>>
    /\ localCache = {<<SMCTL, VERSION>>, <<SMCTK, VERSION>>}

\* C39: among the acquisitions of one tool and version on one machine,
\* concurrent ones included, at most one downloads the tool and at most
\* one stores it into the local cache.
C39_AtMostOneDownloadPerTool ==
    \A n \in ToolNames :
        /\ Cardinality({t \in Tasks : cname[t] = n /\ CountOf(ctrace[t], "download") >= 1}) <= 1
        /\ Cardinality({t \in Tasks : cname[t] = n /\ CountOf(ctrace[t], "cacheDir") >= 1}) <= 1

====
